---- MODULE Spec2Model ----
(***************************************************************************)
(* Auth and rate-limit middleware of auto-shopify.                         *)
(*                                                                         *)
(*   - src/src/lib/auth/jwt-middleware.ts : verifyJWT, getClientIdentifier, *)
(*     checkRateLimit, getSecurityHeaders, generateJWT,                     *)
(*     generateRefreshToken, withAuth                                       *)
(*   - src/src/app/api/auth/login/route.ts : checkLoginRateLimit,           *)
(*     recordFailedLogin, clearFailedLogins, POST                           *)
(*   - src/src/app/api/stores/[id]/progress/route.ts : checkRateLimit, GET  *)
(*   - src/src/components/ui/DemoDataBadge.tsx : StoreProgressTracker       *)
(*   - src/src/app/store-creation/page.tsx : SecureRegisterPage             *)
(*                                                                         *)
(* Time is Date.now() in milliseconds.  It advances in steps of TickMs; a    *)
(* request is handled at one instant.                                      *)
(***************************************************************************)
EXTENDS Integers, Sequences, FiniteSets, TLC

VARIABLES
    now,              \* Date.now(), ms
    options,          \* the options withAuth was constructed with
    rateLimitMaps,    \* jwt-middleware.ts:22, endpoint -> identifier -> entry
    resp,             \* the response of the last request to the wrapped handler
    retryAt,          \* history: when the client of the last 429 may retry if it
                      \* obeys Retry-After
    result,           \* what the last direct call of checkRateLimit returned
    calls,            \* history: per (endpoint, identifier), the calls of checkRateLimit
                      \* since the last one that found no live entry
    loginAttemptMap,  \* login/route.ts:7, identifier -> entry
    loginResp,        \* the response of the last POST /api/auth/login
    fifthFailureAt,   \* history: per identifier, when its failure count reached
                      \* LOGIN_RATE_LIMIT
    issuedToken,      \* the access token generateJWT last issued, with its claims
    verdict,          \* what verifyJWT last answered for a token presented to it
    client,           \* AuthClient: this.accessToken and the browser's localStorage
    captured,         \* history: the access tokens the login route has issued
    rateLimitMap,     \* register/route.ts:7, identifier -> entry
    clientResult,     \* the AuthResponse of the last call of the AuthClient
    sanitized,        \* an input string and what sanitizeInput made of it
    strength,         \* a password and what getPasswordStrength made of it
    inflight,         \* the login requests being handled, each at an await of POST
    verifications,    \* history: the password verifications begun in the current
                      \* window of the login attempt table
    tracker,          \* a StoreProgressTracker: its props, state and timer
    progressRateLimitMap, \* stores/[id]/progress/route.ts:9, identifier -> entry
    page              \* SecureRegisterPage: its state, the browser's localStorage
                      \* item register_lockout, and what it last displayed

vars == <<now, options, rateLimitMaps, resp, retryAt, result, calls,
          loginAttemptMap, loginResp, fifthFailureAt, issuedToken, verdict,
          client, captured, rateLimitMap, clientResult, sanitized, strength,
          inflight, verifications, tracker, progressRateLimitMap, page>>

tableVars == <<options, rateLimitMaps>>
authVars  == <<resp, retryAt>>
rateVars  == <<result, calls>>
loginVars == <<loginAttemptMap, loginResp, fifthFailureAt>>
tokenVars == <<issuedToken, verdict>>
\* the state the middleware, rate limiter and login route leave alone
clientVars == <<client, captured, rateLimitMap, clientResult>>
validationVars == <<sanitized, strength>>
concVars == <<inflight, verifications>>
pollVars == <<tracker, progressRateLimitMap>>
pageVars == <<page>>
uiVars == <<pollVars, pageVars>>
otherVars == <<tokenVars, clientVars, validationVars, concVars, uiVars>>

----------------------------------------------------------------------------
(* Bounds of the model *)

\* time advances in steps of half a rate-limit window
TickMs == (15 * 60 * 1000) \div 2
\* the clock stops after this many steps
MaxTicks == 5
\* the clock of the wrapped handler's requests stops after this many steps
MaxAuthTicks == 3
\* the largest options.rateLimit.max a wrapped handler is constructed with
MaxLimit == 2
\* the longest string given to sanitizeInput
MaxInputLen == 3
\* the number of login requests that can be in flight at once
MaxInflight == 2
\* the interval periods a tracker is followed for
MaxPolls == 21
\* the registration page is followed for this many steps of PageTickMs
MaxPageTicks == 4
\* half the lockout of the registration page (page.tsx:704)
PageTickMs == (5 * 60 * 1000) \div 2

----------------------------------------------------------------------------
(* Arithmetic *)

\* Math.ceil(a / b) for integers a and b > 0
Ceil(a, b) == -((-a) \div b)

\* Math.floor(a / b) for integers a and b > 0
Floor(a, b) == a \div b

Min(a, b) == IF a < b THEN a ELSE b

\* a Map: a function whose domain is the set of keys present
EmptyMap == [k \in {} |-> 0]
Has(map, k) == k \in DOMAIN map
Set(map, k, v) == [x \in DOMAIN map \cup {k} |-> IF x = k THEN v ELSE map[x]]
Delete(map, k) == [x \in DOMAIN map \ {k} |-> map[x]]

----------------------------------------------------------------------------
(* Requests *)

\* a header the request does not carry (headers.get returns null)
Absent == "absent"

\* String.prototype.trim on the header values of the model
Trim(s) == CASE s = " 1.2.3.4" -> "1.2.3.4"
             [] s = "1.2.3.4 " -> "1.2.3.4"
             [] OTHER -> s

\* forwarded.split(',')[0]: the X-Forwarded-For header is held as the sequence
\* of its comma-separated parts, << >> when the request does not carry it
FirstPart(forwarded) == forwarded[1]

\* jwt-middleware.ts:57
getClientIdentifier(request) ==
    LET forwarded == request.forwarded
        ip == IF forwarded # <<>>
              THEN FirstPart(forwarded)
              ELSE IF request.realIp # Absent THEN request.realIp ELSE "unknown"
    IN  Trim(ip)

----------------------------------------------------------------------------
(* Token service *)

JWT_SECRET == "demo-jwt-secret-change-in-production"

\* a claim the payload does not carry
Undefined == "undefined"

\* the ms library's reading of an expiresIn string, in seconds
Seconds(expiresIn) == CASE expiresIn = "15m" -> 15 * 60
                        [] expiresIn = "7d"  -> 7 * 24 * 60 * 60
                        [] expiresIn = "30d" -> 30 * 24 * 60 * 60

\* jwt.sign(payload, key, {expiresIn, issuer, audience}) at time t: the claims
\* plus iat and exp in whole seconds, signed with key
JwtSign(payload, key, expiresIn, issuer, audience, t) ==
    [wellFormed |-> TRUE,
     key        |-> key,
     userId     |-> payload.userId,
     email      |-> payload.email,
     role       |-> payload.role,
     iat        |-> Floor(t, 1000),
     exp        |-> Floor(t, 1000) + Seconds(expiresIn),
     iss        |-> issuer,
     aud        |-> audience]

\* jwt.verify with a token still accepted in the second its exp names
JwtVerify_Late(token, key, t) ==
    IF ~token.wellFormed
    THEN [error |-> "JsonWebTokenError", decoded |-> token]
    ELSE IF token.key # key
    THEN [error |-> "JsonWebTokenError", decoded |-> token]
    ELSE IF Floor(t, 1000) > token.exp
    THEN [error |-> "TokenExpiredError", decoded |-> token]
    ELSE [error |-> "", decoded |-> token]

\* jwt.verify(token, key) at time t, called with no options: the token is
\* decoded, its signature checked against key and its exp against the clock
JwtVerify(token, key, t) ==
    IF ~token.wellFormed
    THEN [error |-> "JsonWebTokenError", decoded |-> token]
    ELSE IF token.key # key
    THEN [error |-> "JsonWebTokenError", decoded |-> token]
    ELSE IF Floor(t, 1000) >= token.exp
    THEN [error |-> "TokenExpiredError", decoded |-> token]
    ELSE [error |-> "", decoded |-> token]

\* jwt-middleware.ts:166
generateJWT(payload, expiresIn, t) ==
    JwtSign(payload, JWT_SECRET, expiresIn,
            "shopify-automation-platform", "shopify-automation-users", t)

\* jwt-middleware.ts:185
generateRefreshToken(userId, remember, t) ==
    JwtSign([userId |-> userId, email |-> Undefined, role |-> Undefined],
            JWT_SECRET, IF remember THEN "30d" ELSE "7d",
            "shopify-automation-platform", "shopify-automation-refresh", t)

\* an Authorization header: absent, or a scheme followed by a token
NoAuthorization == [present |-> FALSE, scheme |-> "", token |-> [wellFormed |-> FALSE]]
Authorization(scheme, token) == [present |-> TRUE, scheme |-> scheme, token |-> token]

\* verifyJWT consulting the client's session: a token the client no longer
\* holds is rejected
verifyJWT_Revoked(request, t) ==
    LET authHeader == request.authorization
        invalid(msg) == [valid |-> FALSE, userId |-> Undefined, email |-> Undefined,
                         role |-> Undefined, error |-> msg]
    IN  IF ~authHeader.present \/ authHeader.scheme # "Bearer"
        THEN invalid("Missing or invalid authorization header")
        ELSE LET v == JwtVerify(authHeader.token, JWT_SECRET, t)
             IN  IF v.error = "" /\ authHeader.token = client.accessToken
                 THEN [valid |-> TRUE, userId |-> v.decoded.userId,
                       email |-> v.decoded.email, role |-> v.decoded.role,
                       error |-> ""]
                 ELSE IF v.error = "TokenExpiredError"
                 THEN invalid("Token expired")
                 ELSE invalid("Invalid token format")

\* jwt-middleware.ts:27
verifyJWT(request, t) ==
    LET authHeader == request.authorization
        invalid(msg) == [valid |-> FALSE, userId |-> Undefined, email |-> Undefined,
                         role |-> Undefined, error |-> msg]
    IN  IF ~authHeader.present \/ authHeader.scheme # "Bearer"
        THEN invalid("Missing or invalid authorization header")
        ELSE LET v == JwtVerify(authHeader.token, JWT_SECRET, t)
             IN  IF v.error = ""
                 THEN [valid |-> TRUE, userId |-> v.decoded.userId,
                       email |-> v.decoded.email, role |-> v.decoded.role,
                       error |-> ""]
                 ELSE IF v.error = "TokenExpiredError"
                 THEN invalid("Token expired")
                 ELSE IF v.error = "JsonWebTokenError"
                 THEN invalid("Invalid token format")
                 ELSE invalid("Token verification failed")

----------------------------------------------------------------------------
(* Rate limiter *)

\* checkRateLimit with the limit compared by > instead of >=
checkRateLimit_OffByOne(maps, identifier, endpoint, maxRequests, windowMs, t) ==
    LET windowStart == t - windowMs
        withEndpoint == IF Has(maps, endpoint) THEN maps
                        ELSE Set(maps, endpoint, EmptyMap)
        old == withEndpoint[endpoint]
        endpointMap == [key \in {k \in DOMAIN old : ~(old[k].resetTime < windowStart)}
                          |-> old[key]]
        hasCurrent == Has(endpointMap, identifier)
    IN  IF ~hasCurrent \/ endpointMap[identifier].resetTime < windowStart
        THEN LET resetTime == t + windowMs
             IN  [maps   |-> Set(withEndpoint, endpoint,
                                 Set(endpointMap, identifier,
                                     [count |-> 1, resetTime |-> resetTime])),
                  result |-> [allowed |-> TRUE, remaining |-> maxRequests - 1,
                              resetTime |-> resetTime]]
        ELSE LET current == endpointMap[identifier]
             IN  IF current.count > maxRequests
                 THEN [maps   |-> Set(withEndpoint, endpoint, endpointMap),
                       result |-> [allowed |-> FALSE, remaining |-> 0,
                                   resetTime |-> current.resetTime]]
                 ELSE [maps   |-> Set(withEndpoint, endpoint,
                                      Set(endpointMap, identifier,
                                          [current EXCEPT !.count = @ + 1])),
                       result |-> [allowed |-> TRUE,
                                   remaining |-> maxRequests - (current.count + 1),
                                   resetTime |-> current.resetTime]]

\* a new window that does not count the call that opens it
checkRateLimit_StartAtZero(maps, identifier, endpoint, maxRequests, windowMs, t) ==
    LET windowStart == t - windowMs
        withEndpoint == IF Has(maps, endpoint) THEN maps
                        ELSE Set(maps, endpoint, EmptyMap)
        old == withEndpoint[endpoint]
        endpointMap == [key \in {k \in DOMAIN old : ~(old[k].resetTime < windowStart)}
                          |-> old[key]]
        hasCurrent == Has(endpointMap, identifier)
    IN  IF ~hasCurrent \/ endpointMap[identifier].resetTime < windowStart
        THEN LET resetTime == t + windowMs
             IN  [maps   |-> Set(withEndpoint, endpoint,
                                 Set(endpointMap, identifier,
                                     [count |-> 0, resetTime |-> resetTime])),
                  result |-> [allowed |-> TRUE, remaining |-> maxRequests - 1,
                              resetTime |-> resetTime]]
        ELSE LET current == endpointMap[identifier]
             IN  IF current.count >= maxRequests
                 THEN [maps   |-> Set(withEndpoint, endpoint, endpointMap),
                       result |-> [allowed |-> FALSE, remaining |-> 0,
                                   resetTime |-> current.resetTime]]
                 ELSE [maps   |-> Set(withEndpoint, endpoint,
                                      Set(endpointMap, identifier,
                                          [current EXCEPT !.count = @ + 1])),
                       result |-> [allowed |-> TRUE,
                                   remaining |-> maxRequests - (current.count + 1),
                                   resetTime |-> current.resetTime]]

\* a limiter that counts the calls it rejects
checkRateLimit_CountRejected(maps, identifier, endpoint, maxRequests, windowMs, t) ==
    LET windowStart == t - windowMs
        withEndpoint == IF Has(maps, endpoint) THEN maps
                        ELSE Set(maps, endpoint, EmptyMap)
        old == withEndpoint[endpoint]
        endpointMap == [key \in {k \in DOMAIN old : ~(old[k].resetTime < windowStart)}
                          |-> old[key]]
        hasCurrent == Has(endpointMap, identifier)
    IN  IF ~hasCurrent \/ endpointMap[identifier].resetTime < windowStart
        THEN LET resetTime == t + windowMs
             IN  [maps   |-> Set(withEndpoint, endpoint,
                                 Set(endpointMap, identifier,
                                     [count |-> 1, resetTime |-> resetTime])),
                  result |-> [allowed |-> TRUE, remaining |-> maxRequests - 1,
                              resetTime |-> resetTime]]
        ELSE LET current == endpointMap[identifier]
             IN  IF current.count >= maxRequests
                 THEN [maps   |-> Set(withEndpoint, endpoint,
                                      Set(endpointMap, identifier,
                                          [current EXCEPT !.count = @ + 1])),
                       result |-> [allowed |-> FALSE, remaining |-> 0,
                                   resetTime |-> current.resetTime]]
                 ELSE [maps   |-> Set(withEndpoint, endpoint,
                                      Set(endpointMap, identifier,
                                          [current EXCEPT !.count = @ + 1])),
                       result |-> [allowed |-> TRUE,
                                   remaining |-> maxRequests - (current.count + 1),
                                   resetTime |-> current.resetTime]]

\* a limiter that keeps one table for all endpoints
checkRateLimit_SharedEndpoint(maps, identifier, endpoint, maxRequests, windowMs, t) ==
    LET windowStart == t - windowMs
        shared == "*"
        withEndpoint == IF Has(maps, shared) THEN maps
                        ELSE Set(maps, shared, EmptyMap)
        old == withEndpoint[shared]
        endpointMap == [key \in {k \in DOMAIN old : ~(old[k].resetTime < windowStart)}
                          |-> old[key]]
        hasCurrent == Has(endpointMap, identifier)
    IN  IF ~hasCurrent \/ endpointMap[identifier].resetTime < windowStart
        THEN LET resetTime == t + windowMs
             IN  [maps   |-> Set(withEndpoint, shared,
                                 Set(endpointMap, identifier,
                                     [count |-> 1, resetTime |-> resetTime])),
                  result |-> [allowed |-> TRUE, remaining |-> maxRequests - 1,
                              resetTime |-> resetTime]]
        ELSE LET current == endpointMap[identifier]
             IN  IF current.count >= maxRequests
                 THEN [maps   |-> Set(withEndpoint, shared, endpointMap),
                       result |-> [allowed |-> FALSE, remaining |-> 0,
                                   resetTime |-> current.resetTime]]
                 ELSE [maps   |-> Set(withEndpoint, shared,
                                      Set(endpointMap, identifier,
                                          [current EXCEPT !.count = @ + 1])),
                       result |-> [allowed |-> TRUE,
                                   remaining |-> maxRequests - (current.count + 1),
                                   resetTime |-> current.resetTime]]

\* jwt-middleware.ts:66
checkRateLimit(maps, identifier, endpoint, maxRequests, windowMs, t) ==
    LET windowStart == t - windowMs
        withEndpoint == IF Has(maps, endpoint) THEN maps
                        ELSE Set(maps, endpoint, EmptyMap)
        old == withEndpoint[endpoint]
        \* clean old entries
        endpointMap == [key \in {k \in DOMAIN old : ~(old[k].resetTime < windowStart)}
                          |-> old[key]]
        hasCurrent == Has(endpointMap, identifier)
    IN  IF ~hasCurrent \/ endpointMap[identifier].resetTime < windowStart
        THEN LET resetTime == t + windowMs
             IN  [maps   |-> Set(withEndpoint, endpoint,
                                 Set(endpointMap, identifier,
                                     [count |-> 1, resetTime |-> resetTime])),
                  result |-> [allowed |-> TRUE, remaining |-> maxRequests - 1,
                              resetTime |-> resetTime]]
        ELSE LET current == endpointMap[identifier]
             IN  IF current.count >= maxRequests
                 THEN [maps   |-> Set(withEndpoint, endpoint, endpointMap),
                       result |-> [allowed |-> FALSE, remaining |-> 0,
                                   resetTime |-> current.resetTime]]
                 ELSE [maps   |-> Set(withEndpoint, endpoint,
                                      Set(endpointMap, identifier,
                                          [current EXCEPT !.count = @ + 1])),
                       result |-> [allowed |-> TRUE,
                                   remaining |-> maxRequests - (current.count + 1),
                                   resetTime |-> current.resetTime]]

\* an absent rateLimit argument
NoRateLimit == [undefined |-> TRUE]

\* jwt-middleware.ts:107; resetTime is never 0, so X-RateLimit-Reset goes
\* with X-RateLimit-Remaining
getSecurityHeaders(rateLimit) ==
    LET headers == [h \in {"X-Frame-Options", "X-Content-Type-Options",
                           "X-XSS-Protection", "Strict-Transport-Security",
                           "Referrer-Policy"} |->
                      CASE h = "X-Frame-Options" -> "DENY"
                        [] h = "X-Content-Type-Options" -> "nosniff"
                        [] h = "X-XSS-Protection" -> "1; mode=block"
                        [] h = "Strict-Transport-Security"
                             -> "max-age=31536000; includeSubDomains"
                        [] h = "Referrer-Policy" -> "strict-origin-when-cross-origin"]
    IN  IF rateLimit # NoRateLimit
        THEN LET withRemaining ==
                     Set(headers, "X-RateLimit-Remaining", ToString(rateLimit.remaining))
             IN  IF rateLimit.resetTime # 0
                 THEN Set(withRemaining, "X-RateLimit-Reset",
                          ToString(Ceil(rateLimit.resetTime, 1000)))
                 ELSE withRemaining
        ELSE headers

\* {...a, ...b}: the keys of b win
Spread(a, b) == [h \in DOMAIN a \cup DOMAIN b |-> IF h \in DOMAIN b THEN b[h] ELSE a[h]]

----------------------------------------------------------------------------
(* The handler withAuth wraps, and the requests sent to it *)

\* jwt-middleware.ts:70, the window the wrapped handlers are limited over
DefaultWindowMs == 15 * 60 * 1000

NoHeaders == [h \in {} |-> ""]

\* what the downstream handler does with a request: it throws an Error with
\* a message (or the promise it returned rejects with it, which the await
\* at line 261 turns into the same throw), or it returns a response with
\* headers of its own choosing
HandlerOutcomes ==
    {[throws |-> TRUE,  status |-> 0,   headers |-> NoHeaders,
      message |-> "connect ECONNREFUSED db.internal:5432"],
     [throws |-> FALSE, status |-> 200, headers |-> NoHeaders, message |-> ""],
     [throws |-> FALSE, status |-> 201,
      headers |-> [h \in {"X-Frame-Options"} |-> "SAMEORIGIN"], message |-> ""]}

Urls == {"/api/stores"}

\* the X-Forwarded-For and X-Real-IP headers of a request
ClientHeaders ==
    {[forwarded |-> << >>, realIp |-> Absent],
     [forwarded |-> << >>, realIp |-> "1.2.3.4 "],
     [forwarded |-> <<" 1.2.3.4", "9.9.9.9">>, realIp |-> Absent]}

UserPayload == [userId |-> "demo-user-123", email |-> "demo@example.com",
                role |-> "aspiring_entrepreneur"]

\* how long ago the tokens a request presents were issued
TokenAges == {0, 15 * 60 * 1000}

\* the tokens a client can hold at time t: access and refresh tokens issued
\* by the service, a token signed with another key, and a malformed one
Tokens(t) ==
    LET issued == {t - a : a \in {a \in TokenAges : a <= t}}
    IN  {generateJWT(UserPayload, "15m", t0) : t0 \in issued}
        \cup {generateRefreshToken(UserPayload.userId, FALSE, t)}
        \cup {JwtSign(UserPayload, "another-secret", "15m",
                      "shopify-automation-platform", "shopify-automation-users", t)}
        \cup {[generateJWT(UserPayload, "15m", t) EXCEPT !.wellFormed = FALSE]}

AuthorizationHeaders(t) ==
    {NoAuthorization}
    \cup {Authorization("Basic", generateJWT(UserPayload, "15m", t))}
    \cup {Authorization("Bearer", tok) : tok \in Tokens(t)}

Requests(t) ==
    {[forwarded |-> c.forwarded, realIp |-> c.realIp, url |-> url,
      authorization |-> a] :
        c \in ClientHeaders, url \in Urls, a \in AuthorizationHeaders(t)}

\* new Response(JSON.stringify({success: false, error}), {status, headers})
ErrorResponse(status, error, headers) ==
    [status |-> status, error |-> error, headers |-> headers]

\* withAuth with the token verified before the rate limit is checked
withAuth_AuthFirst(request, outcome, opts, maps, t) ==
    LET endpoint == IF opts.endpoint # Absent THEN opts.endpoint ELSE request.url
        limited == opts.rateLimit # NoRateLimit
        clientId == getClientIdentifier(request)
        check == checkRateLimit(maps, clientId, endpoint,
                                opts.rateLimit.max, opts.rateLimit.windowMs, t)
        rateLimit == IF limited THEN check.result ELSE NoRateLimit
        maps1 == IF limited THEN check.maps ELSE maps
        auth == verifyJWT(request, t)
    IN  IF ~auth.valid
        THEN [maps |-> maps, rateLimit |-> NoRateLimit, invoked |-> FALSE,
              retryAfter |-> 0,
              response |->
                  ErrorResponse(401,
                      IF auth.error # "" THEN auth.error ELSE "Authentication failed",
                      Spread([h \in {"Content-Type"} |-> "application/json"],
                             getSecurityHeaders(NoRateLimit)))]
        ELSE IF limited /\ ~rateLimit.allowed
        THEN LET retryAfter == IF rateLimit.resetTime # 0
                               THEN Ceil(rateLimit.resetTime - t, 1000)
                               ELSE 900
             IN  [maps |-> maps1, rateLimit |-> rateLimit, invoked |-> FALSE,
                  retryAfter |-> retryAfter,
                  response |->
                      ErrorResponse(429, "Too many requests. Please try again later.",
                          Spread([h \in {"Content-Type", "Retry-After"} |->
                                     IF h = "Content-Type" THEN "application/json"
                                     ELSE ToString(retryAfter)],
                                 getSecurityHeaders(rateLimit)))]
        ELSE IF outcome.throws
        THEN [maps |-> maps1, rateLimit |-> rateLimit, invoked |-> TRUE,
              retryAfter |-> 0,
              response |->
                  ErrorResponse(500, "Internal server error",
                      Spread([h \in {"Content-Type"} |-> "application/json"],
                             getSecurityHeaders(NoRateLimit)))]
        ELSE [maps |-> maps1, rateLimit |-> rateLimit, invoked |-> TRUE,
              retryAfter |-> 0,
              response |-> [status |-> outcome.status, error |-> "",
                            headers |-> outcome.headers]]

\* withAuth answering a throw of the handler with the exception's message
withAuth_LeakMessage(request, outcome, opts, maps, t) ==
    LET endpoint == IF opts.endpoint # Absent THEN opts.endpoint ELSE request.url
        limited == opts.rateLimit # NoRateLimit
        clientId == getClientIdentifier(request)
        check == checkRateLimit(maps, clientId, endpoint,
                                opts.rateLimit.max, opts.rateLimit.windowMs, t)
        rateLimit == IF limited THEN check.result ELSE NoRateLimit
        maps1 == IF limited THEN check.maps ELSE maps
        auth == verifyJWT(request, t)
    IN  IF limited /\ ~rateLimit.allowed
        THEN LET retryAfter == IF rateLimit.resetTime # 0
                               THEN Ceil(rateLimit.resetTime - t, 1000)
                               ELSE 900
             IN  [maps |-> maps1, rateLimit |-> rateLimit, invoked |-> FALSE,
                  retryAfter |-> retryAfter,
                  response |->
                      ErrorResponse(429, "Too many requests. Please try again later.",
                          Spread([h \in {"Content-Type", "Retry-After"} |->
                                     IF h = "Content-Type" THEN "application/json"
                                     ELSE ToString(retryAfter)],
                                 getSecurityHeaders(rateLimit)))]
        ELSE IF ~auth.valid
        THEN [maps |-> maps1, rateLimit |-> rateLimit, invoked |-> FALSE,
              retryAfter |-> 0,
              response |->
                  ErrorResponse(401,
                      IF auth.error # "" THEN auth.error ELSE "Authentication failed",
                      Spread([h \in {"Content-Type"} |-> "application/json"],
                             getSecurityHeaders(NoRateLimit)))]
        ELSE IF outcome.throws
        THEN [maps |-> maps1, rateLimit |-> rateLimit, invoked |-> TRUE,
              retryAfter |-> 0,
              response |->
                  ErrorResponse(500, outcome.message,
                      Spread([h \in {"Content-Type"} |-> "application/json"],
                             getSecurityHeaders(NoRateLimit)))]
        ELSE [maps |-> maps1, rateLimit |-> rateLimit, invoked |-> TRUE,
              retryAfter |-> 0,
              response |-> [status |-> outcome.status, error |-> "",
                            headers |-> outcome.headers]]

\* jwt-middleware.ts:200, the handler withAuth returns, applied to request
\* at time t with the rate-limit table maps; outcome is what the downstream
\* handler does if it is invoked
withAuth(request, outcome, opts, maps, t) ==
    LET endpoint == IF opts.endpoint # Absent THEN opts.endpoint ELSE request.url
        limited == opts.rateLimit # NoRateLimit
        clientId == getClientIdentifier(request)
        check == checkRateLimit(maps, clientId, endpoint,
                                opts.rateLimit.max, opts.rateLimit.windowMs, t)
        rateLimit == IF limited THEN check.result ELSE NoRateLimit
        maps1 == IF limited THEN check.maps ELSE maps
        auth == verifyJWT(request, t)
    IN  IF limited /\ ~rateLimit.allowed
        THEN LET retryAfter == IF rateLimit.resetTime # 0
                               THEN Ceil(rateLimit.resetTime - t, 1000)
                               ELSE 900
             IN  [maps |-> maps1, rateLimit |-> rateLimit, invoked |-> FALSE,
                  retryAfter |-> retryAfter,
                  response |->
                      ErrorResponse(429, "Too many requests. Please try again later.",
                          Spread([h \in {"Content-Type", "Retry-After"} |->
                                     IF h = "Content-Type" THEN "application/json"
                                     ELSE ToString(retryAfter)],
                                 getSecurityHeaders(rateLimit)))]
        ELSE IF ~auth.valid
        THEN [maps |-> maps1, rateLimit |-> rateLimit, invoked |-> FALSE,
              retryAfter |-> 0,
              response |->
                  ErrorResponse(401,
                      IF auth.error # "" THEN auth.error ELSE "Authentication failed",
                      Spread([h \in {"Content-Type"} |-> "application/json"],
                             getSecurityHeaders(NoRateLimit)))]
        ELSE IF outcome.throws
        THEN [maps |-> maps1, rateLimit |-> rateLimit, invoked |-> TRUE,
              retryAfter |-> 0,
              response |->
                  ErrorResponse(500, "Internal server error",
                      Spread([h \in {"Content-Type"} |-> "application/json"],
                             getSecurityHeaders(NoRateLimit)))]
        ELSE [maps |-> maps1, rateLimit |-> rateLimit, invoked |-> TRUE,
              retryAfter |-> 0,
              response |-> [status |-> outcome.status, error |-> "",
                            headers |-> outcome.headers]]

----------------------------------------------------------------------------------------------------------------------------------------------
(* Behaviour of the wrapped handler *)

Key(endpoint, clientId) == <<endpoint, clientId>>

\* the table holds an entry for the key that checkRateLimit does not purge at
\* time t
LiveEntry(maps, endpoint, clientId, windowMs, t) ==
    /\ Has(maps, endpoint)
    /\ Has(maps[endpoint], clientId)
    /\ ~(maps[endpoint][clientId].resetTime < t - windowMs)

\* the table holds an entry for the key whose window, which started windowMs
\* before its resetTime, ended before time t
WindowElapsed(maps, endpoint, clientId, t) ==
    /\ Has(maps, endpoint)
    /\ Has(maps[endpoint], clientId)
    /\ maps[endpoint][clientId].resetTime < t

\* the request presents a token in the Bearer scheme
PresentsBearer(request) ==
    request.authorization.present /\ request.authorization.scheme = "Bearer"

\* the token the request presents is well formed, carries the service's
\* signature and has not reached its expiry at time t
TokenVerifies(request, t) ==
    /\ PresentsBearer(request)
    /\ request.authorization.token.wellFormed
    /\ request.authorization.token.key = JWT_SECRET
    /\ t < request.authorization.token.exp * 1000

\* why the request does not authenticate at time t, in the order
\* verifyJWT and jwt.verify look: no bearer token, a malformed token or one
\* with another signature, or an expired one; "" if it authenticates
TokenState(request, t) ==
    IF ~PresentsBearer(request) THEN "missing"
    ELSE IF ~request.authorization.token.wellFormed THEN "invalid"
    ELSE IF request.authorization.token.key # JWT_SECRET THEN "invalid"
    ELSE IF ~(t < request.authorization.token.exp * 1000) THEN "expired"
    ELSE ""

Audience(request) ==
    IF PresentsBearer(request) /\ request.authorization.token.wellFormed
    THEN request.authorization.token.aud ELSE ""

NoRetry == [key |-> Key("", ""), at |-> 0]

NoResponse ==
    [status |-> 0, error |-> "", headers |-> NoHeaders, invoked |-> FALSE,
     clientId |-> "", rateLimit |-> NoRateLimit,
     retryAfter |-> 0, verifies |-> FALSE, audience |-> "", waited |-> FALSE,
     overLimit |-> FALSE, endpoint |-> "", tokenState |-> "", thrown |-> ""]

NoResult ==
    [identifier |-> "", endpoint |-> "", allowed |-> TRUE, remaining |-> 0,
     resetTime |-> 0, nth |-> 0, elapsed |-> FALSE]

\* the state after the module is loaded and withAuth has wrapped a handler
Limits == [max : 1..MaxLimit, windowMs : {DefaultWindowMs}]

TableInit(limits, endpoints) ==
    /\ options \in [rateLimit : limits, endpoint : endpoints]
    /\ rateLimitMaps = EmptyMap

AuthInit ==
    /\ resp = NoResponse
    /\ retryAt = NoRetry

RateInit ==
    /\ result = NoResult
    /\ calls = EmptyMap

\* one request to the handler withAuth returned.  resp keeps the response
\* and what the request was (tokenState for a 401 only, thrown for a handler
\* that threw); retryAt is history
Request(request, outcome) ==
    \E r \in {withAuth(request, outcome, options, rateLimitMaps, now)} :
    \E endpoint \in {IF options.endpoint # Absent THEN options.endpoint ELSE request.url} :
    \E clientId \in {getClientIdentifier(request)} :
    LET key == Key(endpoint, clientId)
        limited == options.rateLimit # NoRateLimit
    IN  /\ rateLimitMaps' = r.maps
        /\ resp' = [status    |-> r.response.status,
                    error     |-> r.response.error,
                    headers   |-> r.response.headers,
                    invoked   |-> r.invoked,
                    clientId  |-> clientId,
                    rateLimit |-> r.rateLimit,
                    retryAfter |-> r.retryAfter,
                    verifies  |-> TokenVerifies(request, now),
                    audience  |-> Audience(request),
                    waited    |-> retryAt.key = key /\ now >= retryAt.at,
                    overLimit |-> /\ limited
                                  /\ LiveEntry(rateLimitMaps, endpoint, clientId,
                                               options.rateLimit.windowMs, now)
                                  /\ rateLimitMaps[endpoint][clientId].count
                                         >= options.rateLimit.max,
                    endpoint  |-> endpoint,
                    tokenState |-> IF r.response.status = 401
                                   THEN TokenState(request, now) ELSE "",
                    thrown    |-> IF r.invoked /\ outcome.throws
                                  THEN outcome.message ELSE ""]
        /\ retryAt' = IF r.response.status = 429
                      THEN [key |-> key, at |-> now + r.retryAfter * 1000]
                      ELSE IF retryAt.key = key THEN NoRetry ELSE retryAt
        /\ UNCHANGED <<now, options, rateVars, loginVars, otherVars>>

AuthRequest == \E request \in Requests(now), outcome \in HandlerOutcomes :
                   Request(request, outcome)

\* time passes between requests to the wrapped handler
AuthTick == /\ now < MaxAuthTicks * TickMs
            /\ now' = now + TickMs
            /\ UNCHANGED <<tableVars, authVars, rateVars, loginVars, otherVars>>

\* the identifiers and endpoints checkRateLimit is called with directly
Callers == {<<"1.2.3.4", "/login">>, <<"unknown", "/login">>,
            <<"1.2.3.4", "/register">>}

\* one call checkRateLimit(identifier, endpoint, max, windowMs).  result keeps
\* what it returned; calls counts the calls to the key since the one that
\* found no live entry (first), up to one past the limit; result.nth is that
\* count for a call within windowMs of the first, else 0; result.elapsed is
\* whether the call found an entry whose window had ended
RateLimitCall(identifier, endpoint) ==
    /\ options.rateLimit # NoRateLimit
    /\ \E c \in {checkRateLimit(rateLimitMaps, identifier, endpoint,
                                options.rateLimit.max, options.rateLimit.windowMs,
                                now)} :
        LET key == Key(endpoint, identifier)
            max == options.rateLimit.max
            windowMs == options.rateLimit.windowMs
            live == LiveEntry(rateLimitMaps, endpoint, identifier, windowMs, now)
            first == IF live THEN calls[key].first ELSE now
            k == IF live THEN Min(calls[key].k + 1, max + 1) ELSE 1
            kept == {x \in DOMAIN calls : /\ Has(c.maps, x[1])
                                          /\ Has(c.maps[x[1]], x[2])}
        IN  /\ rateLimitMaps' = c.maps
            /\ result' = [identifier |-> identifier,
                          endpoint   |-> endpoint,
                          allowed    |-> c.result.allowed,
                          remaining  |-> c.result.remaining,
                          resetTime  |-> c.result.resetTime,
                          nth        |-> IF now <= first + windowMs THEN k ELSE 0,
                          elapsed    |-> WindowElapsed(rateLimitMaps, endpoint,
                                                       identifier, now)]
            /\ calls' = Set([x \in kept |-> calls[x]], key,
                            [first |-> first, k |-> k])
            /\ UNCHANGED <<now, options, authVars, loginVars, otherVars>>

RateLimitCalls == \E caller \in Callers : RateLimitCall(caller[1], caller[2])

\* time passes
Tick == /\ now < MaxTicks * TickMs
        /\ now' = now + TickMs
        /\ UNCHANGED <<tableVars, authVars, rateVars, loginVars, otherVars>>

----------------------------------------------------------------------------
(* Login lockout, src/src/app/api/auth/login/route.ts *)

LOGIN_RATE_LIMIT == 5
LOGIN_WINDOW == 15 * 60 * 1000
LOCKOUT_DURATION == 30 * 60 * 1000

\* an entry of loginAttemptMap.  lockedUntil is 0 where the code leaves it
\* undefined: line 34 tests it for truthiness, and both are falsy
AttemptEntry(count, resetTime, lockedUntil) ==
    [count |-> count, resetTime |-> resetTime, lockedUntil |-> lockedUntil]

\* login/route.ts:23, which does not trim
loginClientIdentifier(request) ==
    LET forwarded == request.forwarded
    IN  IF forwarded # << >>
        THEN FirstPart(forwarded)
        ELSE IF request.realIp # Absent THEN request.realIp ELSE "unknown"

\* checkLoginRateLimit with the expired window reset before the lockout is
\* looked at
checkLoginRateLimit_ResetFirst(map, identifier, t) ==
    IF ~Has(map, identifier) \/ map[identifier].resetTime < t
    THEN [map    |-> Set(map, identifier, AttemptEntry(0, t + LOGIN_WINDOW, 0)),
          result |-> [allowed |-> TRUE, remaining |-> LOGIN_RATE_LIMIT,
                      lockedUntil |-> 0]]
    ELSE IF map[identifier].lockedUntil # 0 /\ map[identifier].lockedUntil > t
    THEN [map    |-> map,
          result |-> [allowed |-> FALSE, remaining |-> 0,
                      lockedUntil |-> map[identifier].lockedUntil]]
    ELSE IF map[identifier].count >= LOGIN_RATE_LIMIT
    THEN LET lockedUntil == t + LOCKOUT_DURATION
         IN  [map    |-> Set(map, identifier,
                             [map[identifier] EXCEPT !.lockedUntil = lockedUntil]),
              result |-> [allowed |-> FALSE, remaining |-> 0,
                          lockedUntil |-> lockedUntil]]
    ELSE [map    |-> map,
          result |-> [allowed |-> TRUE,
                      remaining |-> LOGIN_RATE_LIMIT - map[identifier].count,
                      lockedUntil |-> 0]]

\* checkLoginRateLimit locking only once the count is above the limit
checkLoginRateLimit_OffByOne(map, identifier, t) ==
    IF Has(map, identifier) /\ map[identifier].lockedUntil # 0
                            /\ map[identifier].lockedUntil > t
    THEN [map    |-> map,
          result |-> [allowed |-> FALSE, remaining |-> 0,
                      lockedUntil |-> map[identifier].lockedUntil]]
    ELSE IF ~Has(map, identifier) \/ map[identifier].resetTime < t
    THEN [map    |-> Set(map, identifier, AttemptEntry(0, t + LOGIN_WINDOW, 0)),
          result |-> [allowed |-> TRUE, remaining |-> LOGIN_RATE_LIMIT,
                      lockedUntil |-> 0]]
    ELSE IF map[identifier].count > LOGIN_RATE_LIMIT
    THEN LET lockedUntil == t + LOCKOUT_DURATION
         IN  [map    |-> Set(map, identifier,
                             [map[identifier] EXCEPT !.lockedUntil = lockedUntil]),
              result |-> [allowed |-> FALSE, remaining |-> 0,
                          lockedUntil |-> lockedUntil]]
    ELSE [map    |-> map,
          result |-> [allowed |-> TRUE,
                      remaining |-> LOGIN_RATE_LIMIT - map[identifier].count,
                      lockedUntil |-> 0]]

\* a check that starts a new window only for a client without an entry
checkLoginRateLimit_NoWindowReset(map, identifier, t) ==
    IF Has(map, identifier) /\ map[identifier].lockedUntil # 0
                            /\ map[identifier].lockedUntil > t
    THEN [map    |-> map,
          result |-> [allowed |-> FALSE, remaining |-> 0,
                      lockedUntil |-> map[identifier].lockedUntil]]
    ELSE IF ~Has(map, identifier)
    THEN [map    |-> Set(map, identifier, AttemptEntry(0, t + LOGIN_WINDOW, 0)),
          result |-> [allowed |-> TRUE, remaining |-> LOGIN_RATE_LIMIT,
                      lockedUntil |-> 0]]
    ELSE IF map[identifier].count >= LOGIN_RATE_LIMIT
    THEN LET lockedUntil == t + LOCKOUT_DURATION
         IN  [map    |-> Set(map, identifier,
                             [map[identifier] EXCEPT !.lockedUntil = lockedUntil]),
              result |-> [allowed |-> FALSE, remaining |-> 0,
                          lockedUntil |-> lockedUntil]]
    ELSE [map    |-> map,
          result |-> [allowed |-> TRUE,
                      remaining |-> LOGIN_RATE_LIMIT - map[identifier].count,
                      lockedUntil |-> 0]]

\* a check that still rejects at the instant lockedUntil
checkLoginRateLimit_LockedAtBoundary(map, identifier, t) ==
    IF Has(map, identifier) /\ map[identifier].lockedUntil # 0
                            /\ map[identifier].lockedUntil >= t
    THEN [map    |-> map,
          result |-> [allowed |-> FALSE, remaining |-> 0,
                      lockedUntil |-> map[identifier].lockedUntil]]
    ELSE IF ~Has(map, identifier) \/ map[identifier].resetTime < t
    THEN [map    |-> Set(map, identifier, AttemptEntry(0, t + LOGIN_WINDOW, 0)),
          result |-> [allowed |-> TRUE, remaining |-> LOGIN_RATE_LIMIT,
                      lockedUntil |-> 0]]
    ELSE IF map[identifier].count >= LOGIN_RATE_LIMIT
    THEN LET lockedUntil == t + LOCKOUT_DURATION
         IN  [map    |-> Set(map, identifier,
                             [map[identifier] EXCEPT !.lockedUntil = lockedUntil]),
              result |-> [allowed |-> FALSE, remaining |-> 0,
                          lockedUntil |-> lockedUntil]]
    ELSE [map    |-> map,
          result |-> [allowed |-> TRUE,
                      remaining |-> LOGIN_RATE_LIMIT - map[identifier].count,
                      lockedUntil |-> 0]]

\* a check that restarts the lockout at every rejected request
checkLoginRateLimit_ExtendLock(map, identifier, t) ==
    IF Has(map, identifier) /\ map[identifier].lockedUntil # 0
                            /\ map[identifier].lockedUntil > t
    THEN [map    |-> Set(map, identifier,
                        [map[identifier] EXCEPT !.lockedUntil = t + LOCKOUT_DURATION]),
          result |-> [allowed |-> FALSE, remaining |-> 0,
                      lockedUntil |-> t + LOCKOUT_DURATION]]
    ELSE IF ~Has(map, identifier) \/ map[identifier].resetTime < t
    THEN [map    |-> Set(map, identifier, AttemptEntry(0, t + LOGIN_WINDOW, 0)),
          result |-> [allowed |-> TRUE, remaining |-> LOGIN_RATE_LIMIT,
                      lockedUntil |-> 0]]
    ELSE IF map[identifier].count >= LOGIN_RATE_LIMIT
    THEN LET lockedUntil == t + LOCKOUT_DURATION
         IN  [map    |-> Set(map, identifier,
                             [map[identifier] EXCEPT !.lockedUntil = lockedUntil]),
              result |-> [allowed |-> FALSE, remaining |-> 0,
                          lockedUntil |-> lockedUntil]]
    ELSE [map    |-> map,
          result |-> [allowed |-> TRUE,
                      remaining |-> LOGIN_RATE_LIMIT - map[identifier].count,
                      lockedUntil |-> 0]]

\* login/route.ts:29
checkLoginRateLimit(map, identifier, t) ==
    IF Has(map, identifier) /\ map[identifier].lockedUntil # 0
                            /\ map[identifier].lockedUntil > t
    THEN [map    |-> map,
          result |-> [allowed |-> FALSE, remaining |-> 0,
                      lockedUntil |-> map[identifier].lockedUntil]]
    ELSE IF ~Has(map, identifier) \/ map[identifier].resetTime < t
    THEN [map    |-> Set(map, identifier, AttemptEntry(0, t + LOGIN_WINDOW, 0)),
          result |-> [allowed |-> TRUE, remaining |-> LOGIN_RATE_LIMIT,
                      lockedUntil |-> 0]]
    ELSE IF map[identifier].count >= LOGIN_RATE_LIMIT
    THEN LET lockedUntil == t + LOCKOUT_DURATION
         IN  [map    |-> Set(map, identifier,
                             [map[identifier] EXCEPT !.lockedUntil = lockedUntil]),
              result |-> [allowed |-> FALSE, remaining |-> 0,
                          lockedUntil |-> lockedUntil]]
    ELSE [map    |-> map,
          result |-> [allowed |-> TRUE,
                      remaining |-> LOGIN_RATE_LIMIT - map[identifier].count,
                      lockedUntil |-> 0]]

\* a record that opens a new window at every failure
recordFailedLogin_Restart(map, identifier, t) ==
    Set(map, identifier, AttemptEntry(1, t + LOGIN_WINDOW, 0))

\* login/route.ts:54
recordFailedLogin(map, identifier, t) ==
    IF ~Has(map, identifier) \/ map[identifier].resetTime < t
    THEN Set(map, identifier, AttemptEntry(1, t + LOGIN_WINDOW, 0))
    ELSE Set(map, identifier, [map[identifier] EXCEPT !.count = @ + 1])

\* clearFailedLogins zeroing nothing: the entry is left in the table
clearFailedLogins_Keep(map, identifier) == map

\* login/route.ts:65
clearFailedLogins(map, identifier) == Delete(map, identifier)

\* login/route.ts:115, the mock user table
MockUser == [id |-> "demo-user-123", email |-> "demo@example.com",
             password |-> "password123", role |-> "aspiring_entrepreneur"]

\* String.prototype.toLowerCase on the e-mail addresses of the model
ToLowerCase(email) == IF email = "Demo@Example.com" THEN "demo@example.com" ELSE email

\* the bodies a login request carries: one request.json() cannot parse, one
\* loginSchema rejects, and credentials
LoginBodies ==
    {[parses |-> FALSE, valid |-> FALSE, email |-> "", password |-> "",
      remember |-> FALSE],
     [parses |-> TRUE, valid |-> FALSE, email |-> "not-an-email", password |-> "",
      remember |-> FALSE]}
    \cup {[parses |-> TRUE, valid |-> TRUE, email |-> c[1], password |-> c[2],
            remember |-> c[3]] :
              c \in {<<"nobody@example.com", "password123", FALSE>>,
                     <<"Demo@Example.com", "letmein", FALSE>>,
                     <<"Demo@Example.com", "password123", FALSE>>,
                     <<"Demo@Example.com", "password123", TRUE>>}}

LoginClients ==
    {[forwarded |-> << >>, realIp |-> Absent],
     [forwarded |-> <<"1.2.3.4", "9.9.9.9">>, realIp |-> Absent]}

LoginRequests ==
    {[forwarded |-> c.forwarded, realIp |-> c.realIp, body |-> b] :
        c \in LoginClients, b \in LoginBodies}

\* NextResponse.json(body, {status, headers}) with the fields of the body
\* that matter here
LoginResponse(status, error, headers) ==
    [status |-> status, error |-> error, headers |-> headers, lockedUntil |-> 0,
     lockoutMinutes |-> 0, accessToken |-> NoAuthorization.token,
     refreshToken |-> NoAuthorization.token, expiresIn |-> 0, cookieMaxAge |-> 0]

\* POST with the refreshToken cookie kept for 7 days whatever remember is
POST_SevenDayCookie(request, map, t) ==
    LET clientId == loginClientIdentifier(request)
        check == checkLoginRateLimit(map, clientId, t)
        rateLimit == check.result
        body == request.body
        failed(status, error) ==
            [map      |-> recordFailedLogin(check.map, clientId, t),
             response |-> LoginResponse(status, error, NoHeaders)]
    IN  IF ~rateLimit.allowed
        THEN LET lockoutMinutes == IF rateLimit.lockedUntil # 0
                                   THEN Ceil(rateLimit.lockedUntil - t, 60 * 1000)
                                   ELSE 15
             IN  [map      |-> check.map,
                  response |->
                      [LoginResponse(429,
                           "Account temporarily locked due to too many failed attempts.",
                           [h \in {"Retry-After"} |-> ToString(lockoutMinutes * 60)])
                       EXCEPT !.lockedUntil = rateLimit.lockedUntil,
                              !.lockoutMinutes = lockoutMinutes]]
        ELSE IF ~body.parses
        THEN failed(500, "An unexpected error occurred")
        ELSE IF ~body.valid
        THEN failed(400, "Invalid input data")
        ELSE IF ToLowerCase(MockUser.email) # ToLowerCase(body.email)
        THEN failed(401, "Invalid email or password")
        ELSE IF body.password # MockUser.password
        THEN failed(401, "Invalid email or password")
        ELSE LET tokenPayload == [userId |-> MockUser.id, email |-> MockUser.email,
                                  role |-> MockUser.role]
                 remember == body.remember
             IN  [map      |-> clearFailedLogins(check.map, clientId),
                  response |->
                      [LoginResponse(200, "",
                           [h \in {"X-Frame-Options", "X-Content-Type-Options",
                                   "X-XSS-Protection"} |->
                              CASE h = "X-Frame-Options" -> "DENY"
                                [] h = "X-Content-Type-Options" -> "nosniff"
                                [] h = "X-XSS-Protection" -> "1; mode=block"])
                       EXCEPT !.accessToken =
                                  JwtSign(tokenPayload, JWT_SECRET, "15m",
                                          "shopify-automation-platform",
                                          "shopify-automation-users", t),
                              !.refreshToken =
                                  JwtSign([userId |-> MockUser.id, email |-> Undefined,
                                           role |-> Undefined],
                                          JWT_SECRET, IF remember THEN "30d" ELSE "7d",
                                          "shopify-automation-platform",
                                          "shopify-automation-refresh", t),
                              !.expiresIn = 900,
                              !.cookieMaxAge = 7 * 24 * 60 * 60]]

\* login/route.ts:69, POST applied to request at time t with the attempt
\* table map
POST(request, map, t) ==
    LET clientId == loginClientIdentifier(request)
        check == checkLoginRateLimit(map, clientId, t)
        rateLimit == check.result
        body == request.body
        failed(status, error) ==
            [map      |-> recordFailedLogin(check.map, clientId, t),
             response |-> LoginResponse(status, error, NoHeaders)]
    IN  IF ~rateLimit.allowed
        THEN LET lockoutMinutes == IF rateLimit.lockedUntil # 0
                                   THEN Ceil(rateLimit.lockedUntil - t, 60 * 1000)
                                   ELSE 15
             IN  [map      |-> check.map,
                  response |->
                      [LoginResponse(429,
                           "Account temporarily locked due to too many failed attempts.",
                           [h \in {"Retry-After"} |-> ToString(lockoutMinutes * 60)])
                       EXCEPT !.lockedUntil = rateLimit.lockedUntil,
                              !.lockoutMinutes = lockoutMinutes]]
        ELSE IF ~body.parses
        THEN failed(500, "An unexpected error occurred")
        ELSE IF ~body.valid
        THEN failed(400, "Invalid input data")
        ELSE IF ToLowerCase(MockUser.email) # ToLowerCase(body.email)
        THEN failed(401, "Invalid email or password")
        ELSE IF body.password # MockUser.password
        THEN failed(401, "Invalid email or password")
        ELSE LET tokenPayload == [userId |-> MockUser.id, email |-> MockUser.email,
                                  role |-> MockUser.role]
                 remember == body.remember
             IN  [map      |-> clearFailedLogins(check.map, clientId),
                  response |->
                      [LoginResponse(200, "",
                           [h \in {"X-Frame-Options", "X-Content-Type-Options",
                                   "X-XSS-Protection"} |->
                              CASE h = "X-Frame-Options" -> "DENY"
                                [] h = "X-Content-Type-Options" -> "nosniff"
                                [] h = "X-XSS-Protection" -> "1; mode=block"])
                       EXCEPT !.accessToken =
                                  JwtSign(tokenPayload, JWT_SECRET, "15m",
                                          "shopify-automation-platform",
                                          "shopify-automation-users", t),
                              !.refreshToken =
                                  JwtSign([userId |-> MockUser.id, email |-> Undefined,
                                           role |-> Undefined],
                                          JWT_SECRET, IF remember THEN "30d" ELSE "7d",
                                          "shopify-automation-platform",
                                          "shopify-automation-refresh", t),
                              !.expiresIn = 900,
                              !.cookieMaxAge = IF remember THEN 30 * 24 * 60 * 60
                                               ELSE 7 * 24 * 60 * 60]]

NoLoginResponse ==
    [response |-> LoginResponse(0, "", NoHeaders), clientId |-> "",
     lockRemaining |-> 0, windowExpired |-> FALSE, priorCount |-> 0,
     sinceFifth |-> FALSE, remember |-> FALSE, sinceLockEnd |-> -1,
     counted |-> 0]

NoFifth == [identifier |-> "", at |-> 0]

LoginInit ==
    /\ loginAttemptMap = EmptyMap
    /\ loginResp = NoLoginResponse
    /\ fifthFailureAt = NoFifth

\* one POST /api/auth/login, handled before the next request arrives.
\* loginResp keeps the response and, as history, what the attempt table held
\* for the client when the request arrived (priorCount for a successful
\* login only) and, for a successful login, the remember it asked for;
\* sinceLockEnd is the time since the client's lockedUntil for a request
\* that arrives at or after it (else -1); counted is the client's count
\* after a request the lockout check admitted, less its count when the
\* request arrived (0 without an entry or once resetTime has passed);
\* fifthFailureAt is history
Login(request) ==
    \E r \in {POST(request, loginAttemptMap, now)} :
    \E clientId \in {loginClientIdentifier(request)} :
    LET had == Has(loginAttemptMap, clientId)
        pre == loginAttemptMap[clientId]
        reachedLimit == /\ Has(r.map, clientId)
                        /\ r.map[clientId].count = LOGIN_RATE_LIMIT
                        /\ ~(had /\ pre.count = LOGIN_RATE_LIMIT
                                 /\ pre.resetTime = r.map[clientId].resetTime)
        before == IF had /\ ~(pre.resetTime < now) THEN pre.count ELSE 0
        after == IF Has(r.map, clientId) THEN r.map[clientId].count ELSE 0
    IN  /\ loginAttemptMap' = r.map
        /\ loginResp' =
               [response      |-> r.response,
                clientId      |-> clientId,
                lockRemaining |-> IF had /\ pre.lockedUntil > now
                                  THEN pre.lockedUntil - now ELSE 0,
                windowExpired |-> had /\ pre.resetTime < now,
                priorCount    |-> IF had /\ r.response.status = 200
                                  THEN pre.count ELSE 0,
                sinceFifth    |-> /\ fifthFailureAt.identifier = clientId
                                  /\ now < fifthFailureAt.at + LOCKOUT_DURATION,
                remember      |-> r.response.status = 200 /\ request.body.remember,
                sinceLockEnd  |-> IF had /\ pre.lockedUntil # 0
                                         /\ pre.lockedUntil <= now
                                  THEN now - pre.lockedUntil ELSE -1,
                counted       |-> IF r.response.status = 429 THEN 0
                                  ELSE after - before]
        /\ fifthFailureAt' =
               IF reachedLimit THEN [identifier |-> clientId, at |-> now]
               ELSE IF r.response.status = 200 /\ fifthFailureAt.identifier = clientId
               THEN NoFifth
               ELSE fifthFailureAt
        /\ UNCHANGED <<now, tableVars, authVars, rateVars, otherVars>>

LoginRequest == \E request \in LoginRequests : Login(request)

----------------------------------------------------------------------------
(* Token round trip: generateJWT, then verifyJWT on a request bearing the token *)

\* the claims tokens are issued for
Payloads ==
    {UserPayload,
     [userId |-> "user_2", email |-> "ops@example.com", role |-> "business_owner"],
     [userId |-> "", email |-> "", role |-> ""]}

\* the instants, in ms, at which tokens are issued and verified: around a
\* whole second, and around 15 minutes after it
TokenTimes == {0, 1, 999, 1000, 899000, 899001, 899999, 900000, 900001,
               900999, 901000}

\* a request that carries token as its bearer token
BearerRequest(tok) ==
    [forwarded |-> << >>, realIp |-> Absent, url |-> "/api/stores",
     authorization |-> Authorization("Bearer", tok)]

NoToken == [issued |-> FALSE, payload |-> UserPayload, issuedAt |-> 0,
            jwt |-> NoAuthorization.token]
NoVerdict == [checked |-> FALSE, at |-> 0, issuedAt |-> 0, payload |-> UserPayload,
              auth |-> [valid |-> FALSE, userId |-> Undefined, email |-> Undefined,
                        role |-> Undefined, error |-> ""]]

TokenInit ==
    /\ issuedToken = NoToken
    /\ verdict = NoVerdict


\* generateJWT(payload), with the default expiresIn
Issue(payload) ==
    /\ issuedToken' = [issued |-> TRUE, payload |-> payload, issuedAt |-> now,
                       jwt |-> generateJWT(payload, "15m", now)]
    /\ UNCHANGED <<now, tableVars, authVars, rateVars, loginVars, verdict, clientVars,
                   validationVars, concVars, uiVars>>

IssueToken == \E payload \in Payloads : Issue(payload)

\* verifyJWT on a request bearing the token last issued
VerifyIssued ==
    /\ issuedToken.issued
    /\ verdict' = [checked |-> TRUE, at |-> now, issuedAt |-> issuedToken.issuedAt,
                   payload |-> issuedToken.payload,
                   auth |-> verifyJWT(BearerRequest(issuedToken.jwt), now)]
    /\ UNCHANGED <<now, tableVars, authVars, rateVars, loginVars, issuedToken,
                   clientVars, validationVars, concVars, uiVars>>

\* time passes to a later instant of TokenTimes
TokenTick ==
    /\ \E t \in TokenTimes : t > now /\ now' = t
    /\ UNCHANGED <<tableVars, authVars, rateVars, loginVars, otherVars>>

----------------------------------------------------------------------------
(* Registration, src/src/app/api/auth/register/route.ts *)

RATE_LIMIT_MAX == 5
RATE_LIMIT_WINDOW == 15 * 60 * 1000

\* register/route.ts:18
getRateLimit(map, identifier, t) ==
    LET windowStart == t - RATE_LIMIT_WINDOW
        \* clean old entries
        cleaned == [key \in {k \in DOMAIN map : ~(map[k].resetTime < windowStart)}
                      |-> map[key]]
    IN  IF ~Has(cleaned, identifier) \/ cleaned[identifier].resetTime < windowStart
        THEN [map    |-> Set(cleaned, identifier,
                             [count |-> 1, resetTime |-> t + RATE_LIMIT_WINDOW]),
              result |-> [allowed |-> TRUE, remaining |-> RATE_LIMIT_MAX - 1]]
        ELSE IF cleaned[identifier].count >= RATE_LIMIT_MAX
        THEN [map |-> cleaned, result |-> [allowed |-> FALSE, remaining |-> 0]]
        ELSE [map    |-> Set(cleaned, identifier,
                             [cleaned[identifier] EXCEPT !.count = @ + 1]),
              result |-> [allowed |-> TRUE,
                          remaining |-> RATE_LIMIT_MAX - (cleaned[identifier].count + 1)]]

\* register/route.ts:50
validateSecurityHeaders(request) ==
    LET errors == IF request.contentType = Absent
                     \/ request.contentType # "application/json"
                  THEN <<"Invalid Content-Type header">> ELSE << >>
    IN  [valid |-> Len(errors) = 0, errors |-> errors]

\* a token the response or the client does not hold
Null == [null |-> TRUE]

\* NextResponse.json(body, {status, headers}) of the register route; tokens
\* is the tokens member of the body
RegisterResponse(status, error, headers) ==
    [status |-> status, success |-> FALSE, error |-> error, headers |-> headers,
     user |-> Null, tokens |-> Null]

\* register/route.ts:70, POST applied to request at time t with the rate
\* limit table map.  The e-mail addresses of the model are in lower case
\* and trimmed
registerPOST(request, map, t) ==
    LET headerValidation == validateSecurityHeaders(request)
        clientId == loginClientIdentifier(request)
        limit == getRateLimit(map, clientId, t)
        rateLimit == limit.result
        body == request.body
    IN  IF ~headerValidation.valid
        THEN [map |-> map,
              response |-> RegisterResponse(400, "Invalid request headers", NoHeaders)]
        ELSE IF ~rateLimit.allowed
        THEN [map |-> limit.map,
              response |->
                  RegisterResponse(429,
                      "Too many registration attempts. Please try again later.",
                      [h \in {"Retry-After", "X-RateLimit-Remaining"} |->
                          IF h = "Retry-After" THEN "900" ELSE "0"])]
        ELSE IF ~body.parses
        THEN [map |-> limit.map,
              response |->
                  RegisterResponse(500,
                      "An unexpected error occurred. Please try again.", NoHeaders)]
        ELSE IF ~body.valid
        THEN [map |-> limit.map,
              response |-> RegisterResponse(400, "Invalid input data", NoHeaders)]
        ELSE IF body.email = "existing@example.com"
        THEN [map |-> limit.map,
              response |->
                  RegisterResponse(409, "An account with this email already exists",
                                   NoHeaders)]
        ELSE [map |-> limit.map,
              response |->
                  [RegisterResponse(201, "",
                       [h \in {"X-RateLimit-Remaining", "X-Frame-Options",
                               "X-Content-Type-Options", "X-XSS-Protection"} |->
                          CASE h = "X-RateLimit-Remaining" -> ToString(rateLimit.remaining)
                            [] h = "X-Frame-Options" -> "DENY"
                            [] h = "X-Content-Type-Options" -> "nosniff"
                            [] h = "X-XSS-Protection" -> "1; mode=block"])
                   EXCEPT !.success = TRUE,
                          !.user = [id |-> <<"user", t, body.random>>,
                                    email |-> body.email, role |-> body.role,
                                    emailVerified |-> FALSE]]]

----------------------------------------------------------------------------
(* AuthClient, src/src/lib/auth/jwt-middleware.ts:1123, in a browser *)

\* AuthClient.setStoredToken(token), jwt-middleware.ts:1137
setStoredToken(c, tok) ==
    [c EXCEPT !.localStorage.access_token = tok, !.accessToken = tok]

\* the credentials AuthClient.login is called with
Credentials ==
    {[email |-> "demo@example.com", password |-> "letmein", remember |-> FALSE],
     [email |-> "demo@example.com", password |-> "password123", remember |-> FALSE]}

\* the data AuthClient.register is called with, and whether
\* registerRequestSchema accepts it
RegisterData ==
    {[parses |-> TRUE, valid |-> v, email |-> e, role |-> "aspiring_entrepreneur",
      random |-> "k3j9x2m1q"] :
        v \in BOOLEAN, e \in {"new@example.com", "existing@example.com"}}

\* the AuthResponse a call of the client ends with
AuthResponse(op, response, success, tokens) ==
    [op |-> op, status |-> response.status, success |-> success, tokens |-> tokens,
     authenticated |-> FALSE]

NoClientResult ==
    [op |-> "", status |-> 0, success |-> FALSE, tokens |-> Null,
     authenticated |-> FALSE]

ClientInit ==
    /\ client = [accessToken |-> Null,
                 localStorage |-> [access_token |-> Null, refresh_token |-> Null]]
    /\ captured = {}
    /\ rateLimitMap = EmptyMap
    /\ clientResult = NoClientResult


\* AuthClient.login(email, password, remember), jwt-middleware.ts:1187, with
\* the login route answering the fetch
ClientLogin(credentials) ==
    \E r \in {POST([forwarded |-> << >>, realIp |-> Absent,
                    body |-> [parses |-> TRUE, valid |-> TRUE,
                              email |-> credentials.email,
                              password |-> credentials.password,
                              remember |-> credentials.remember]],
                   loginAttemptMap, now)} :
    LET success == r.response.status = 200
        tokens == IF success
                  THEN [accessToken |-> r.response.accessToken,
                        refreshToken |-> r.response.refreshToken,
                        expiresIn |-> r.response.expiresIn]
                  ELSE Null
        stored == IF success /\ tokens # Null
                  THEN [setStoredToken(client, tokens.accessToken)
                            EXCEPT !.localStorage.refresh_token = tokens.refreshToken]
                  ELSE client
    IN  /\ loginAttemptMap' = r.map
        /\ client' = stored
        /\ captured' = IF success THEN captured \cup {tokens.accessToken} ELSE captured
        /\ clientResult' = [AuthResponse("login", r.response, success, tokens)
                               EXCEPT !.authenticated = stored.accessToken # Null]
        /\ UNCHANGED <<now, tableVars, authVars, rateVars, loginResp, fifthFailureAt,
                       tokenVars, rateLimitMap, validationVars, concVars, uiVars>>

ClientLogins == \E credentials \in Credentials : ClientLogin(credentials)

\* AuthClient.register(data), jwt-middleware.ts:1161, with the register
\* route answering the fetch
ClientRegister(data) ==
    \E r \in {registerPOST([forwarded |-> << >>, realIp |-> Absent,
                            contentType |-> "application/json", body |-> data],
                           rateLimitMap, now)} :
    LET answer == r.response
        stored == IF answer.success /\ answer.tokens # Null
                  THEN [setStoredToken(client, answer.tokens.accessToken)
                            EXCEPT !.localStorage.refresh_token =
                                       answer.tokens.refreshToken]
                  ELSE client
    IN  /\ rateLimitMap' = r.map
        /\ client' = stored
        /\ clientResult' = [AuthResponse("register", answer, answer.success,
                                         answer.tokens)
                               EXCEPT !.authenticated = stored.accessToken # Null]
        /\ UNCHANGED <<now, tableVars, authVars, rateVars, loginVars, tokenVars,
                       captured, validationVars, concVars, uiVars>>

ClientRegisters == \E data \in RegisterData : ClientRegister(data)

\* AuthClient.logout(), jwt-middleware.ts:1212
ClientLogout ==
    /\ client' = [setStoredToken(client, Null)
                     EXCEPT !.localStorage.refresh_token = Null]
    /\ clientResult' = [NoClientResult EXCEPT !.op = "logout"]
    /\ UNCHANGED <<now, tableVars, authVars, rateVars, loginVars, tokenVars,
                   captured, rateLimitMap, validationVars, concVars, uiVars>>

\* a request that presents an access token issued earlier, whoever holds it
\* now, to verifyJWT
Replay(tok) ==
    /\ verdict' = [checked |-> TRUE, at |-> now, issuedAt |-> tok.iat * 1000,
                   payload |-> [userId |-> tok.userId, email |-> tok.email,
                                role |-> tok.role],
                   auth |-> verifyJWT(BearerRequest(tok), now)]
    /\ UNCHANGED <<now, tableVars, authVars, rateVars, loginVars, issuedToken,
                   clientVars, validationVars, concVars, uiVars>>

Replays == \E tok \in captured : Replay(tok)

----------------------------------------------------------------------------
(* Validation helpers: sanitizeInput (jwt-middleware.ts:155) and             *)
(* getPasswordStrength (jwt-middleware.ts:868).  A string is the sequence of *)
(* its characters.                                                          *)

\* the characters of the strings given to sanitizeInput
InputChars == {"<", ">", "'", "\"", " ", "a"}

InputStrings == UNION {[1..n -> InputChars] : n \in 0..MaxInputLen}

\* the maxLength sanitizeInput is called with; 255 is its default
MaxLengths == {0, 1, 2, 7, 255}

\* String.prototype.trim on a sequence of characters
RECURSIVE TrimStart(_)
TrimStart(str) == IF str # << >> /\ Head(str) = " " THEN TrimStart(Tail(str)) ELSE str

RECURSIVE TrimEnd(_)
TrimEnd(str) == IF str # << >> /\ str[Len(str)] = " "
                THEN TrimEnd(SubSeq(str, 1, Len(str) - 1)) ELSE str

TrimString(str) == TrimEnd(TrimStart(str))

\* str.replace(/[<>]/g, '')
RECURSIVE RemoveAngles(_)
RemoveAngles(str) ==
    IF str = << >> THEN << >>
    ELSE IF Head(str) \in {"<", ">"} THEN RemoveAngles(Tail(str))
    ELSE <<Head(str)>> \o RemoveAngles(Tail(str))

\* str.replace(/[<>]/, ''), which replaces the first match only
RECURSIVE RemoveFirstAngle(_)
RemoveFirstAngle(str) ==
    IF str = << >> THEN << >>
    ELSE IF Head(str) \in {"<", ">"} THEN Tail(str)
    ELSE <<Head(str)>> \o RemoveFirstAngle(Tail(str))

\* str.replace(/['"]/g, char => char === '"' ? '&quot;' : '&#x27;')
RECURSIVE EscapeQuotes(_)
EscapeQuotes(str) ==
    IF str = << >> THEN << >>
    ELSE (IF Head(str) = "\"" THEN <<"&", "q", "u", "o", "t", ";">>
          ELSE IF Head(str) = "'" THEN <<"&", "#", "x", "2", "7", ";">>
          ELSE <<Head(str)>>) \o EscapeQuotes(Tail(str))

\* str.substring(0, maxLength) for maxLength >= 0
Substring(str, maxLength) == SubSeq(str, 1, Min(maxLength, Len(str)))

\* sanitizeInput with the g flag missing from the first replace
sanitizeInput_FirstOnly(input, maxLength) ==
    Substring(EscapeQuotes(RemoveFirstAngle(TrimString(input))), maxLength)

\* jwt-middleware.ts:155
sanitizeInput(input, maxLength) ==
    Substring(EscapeQuotes(RemoveAngles(TrimString(input))), maxLength)

\* the characters of passwords, by the class the regular expressions of
\* getPasswordStrength put them in
LowerCase == {"a", "b", "c", "d", "e", "f", "g", "h", "i", "j", "k", "l", "m",
              "n", "o", "p", "q", "r", "s", "t", "u", "v", "w", "x", "y", "z"}
UpperCase == {"A", "B", "C", "D", "E", "F", "G", "H", "I", "J", "K", "L", "M",
              "N", "O", "P", "Q", "R", "S", "T", "U", "V", "W", "X", "Y", "Z"}
Digits == {"0", "1", "2", "3", "4", "5", "6", "7", "8", "9"}

\* regex.test(password) for a character class
Test(class, password) == \E i \in 1..Len(password) : password[i] \in class
TestNot(classes, password) == \E i \in 1..Len(password) : password[i] \notin classes

\* the passwords of registration.spec.ts:74-82
TestPasswords ==
    {<<"w", "e", "a", "k">>,
     <<"M", "e", "d", "i", "u", "m", "P", "a", "s", "s", "1", "2", "3">>,
     <<"S", "t", "r", "o", "n", "g", "P", "a", "s", "s", "1", "2", "3", "!">>}

\* passwords of 4, 8, 11, 12 and 16 characters that repeat a pattern of one
\* character from each class of a set of classes
PatternPasswords ==
    {[i \in 1..n |-> pattern[((i - 1) % Len(pattern)) + 1]] :
        n \in {4, 8, 11, 12, 16},
        pattern \in {<<"a">>, <<"B">>, <<"1">>, <<"!">>, <<"a", "B">>, <<"a", "1">>,
                     <<"a", "!">>, <<"B", "1">>, <<"B", "!">>, <<"1", "!">>,
                     <<"a", "B", "1">>, <<"a", "B", "!">>, <<"a", "1", "!">>,
                     <<"B", "1", "!">>, <<"a", "B", "1", "!">>}}

Passwords == TestPasswords \cup PatternPasswords

\* jwt-middleware.ts:868.  The case labels 0-1, 2-3 and 4-5 are the
\* subtractions JavaScript evaluates, compared with === in order
getPasswordStrength(password) ==
    LET length == Len(password)
        score == (IF length >= 8 THEN 1 ELSE 0)
                 + (IF length >= 12 THEN 1 ELSE 0)
                 + (IF Test(LowerCase, password) THEN 1 ELSE 0)
                 + (IF Test(UpperCase, password) THEN 1 ELSE 0)
                 + (IF Test(Digits, password) THEN 1 ELSE 0)
                 + (IF TestNot(LowerCase \cup UpperCase \cup Digits, password)
                    THEN 1 ELSE 0)
                 + (IF length >= 16 THEN 1 ELSE 0)
        rated(feedback, color) == [score |-> score, feedback |-> feedback,
                                   color |-> color]
    IN  IF score = 0 - 1 THEN rated("Very Weak", "bg-red-500")
        ELSE IF score = 2 - 3 THEN rated("Weak", "bg-orange-500")
        ELSE IF score = 4 - 5 THEN rated("Good", "bg-yellow-500")
        ELSE IF score = 6 THEN rated("Strong", "bg-green-500")
        ELSE IF score = 7 THEN rated("Very Strong", "bg-green-600")
        ELSE rated("Very Weak", "bg-red-500")

----------------------------------------------------------------------------
(* Concurrent login requests.  POST is an async function: it runs from one  *)
(* await to the next without interruption, and other requests run while it *)
(* waits for request.json() (line 96), bcrypt.hash (line 119) and           *)
(* bcrypt.compare (line 140).                                               *)

\* the bodies of the concurrent requests: one request.json() rejects, an
\* unknown e-mail address, a wrong and the right password
ConcBodies ==
    {b \in LoginBodies : /\ b.parses => b.valid
                         /\ ~b.remember}

\* the client all of them come from
ConcClient == [forwarded |-> << >>, realIp |-> Absent]

Idle == [pc |-> "idle", clientId |-> "", body |-> << >>, raced |-> FALSE]

NoVerifications == [window |-> 0, n |-> 0, overlapped |-> FALSE]

ConcInit ==
    /\ inflight = [slot \in 1..MaxInflight |-> Idle]
    /\ verifications = NoVerifications

\* history: the verifications counted in the window of the entry map holds
\* for identifier, one more if the request of slot begins one; overlapped
\* tells whether a request counted was in flight together with another
Counted(map, identifier, slot, begins) ==
    LET window == IF Has(map, identifier) THEN map[identifier].resetTime ELSE 0
        base == IF window = verifications.window THEN verifications
                ELSE [NoVerifications EXCEPT !.window = window]
    IN  IF begins
        THEN [base EXCEPT !.n = @ + 1,
                          !.overlapped = @ \/ inflight[slot].raced]
        ELSE base

\* lines 70-96: the lockout check, the 429 of a client it rejects, and the
\* call of request.json()
Start(slot, body) ==
    /\ inflight[slot].pc = "idle"
    /\ \E clientId \in {loginClientIdentifier(ConcClient)} :
       \E check \in {checkLoginRateLimit(loginAttemptMap, clientId, now)} :
       LET others == {o \in 1..MaxInflight : /\ o # slot
                                              /\ inflight[o].pc # "idle"
                                              /\ inflight[o].clientId = clientId}
       IN  /\ loginAttemptMap' = check.map
           /\ inflight' =
                  IF ~check.result.allowed THEN inflight
                  ELSE [o \in 1..MaxInflight |->
                           IF o = slot
                           THEN [pc |-> "json", clientId |-> clientId, body |-> body,
                                 raced |-> others # {}]
                           ELSE IF o \in others
                           THEN [inflight[o] EXCEPT !.raced = TRUE]
                           ELSE inflight[o]]
           /\ verifications' = Counted(check.map, clientId, slot, FALSE)
    /\ UNCHANGED <<now, tableVars, authVars, rateVars, loginResp, fifthFailureAt,
                   tokenVars, clientVars, validationVars,
                   uiVars>>

Starts == \E slot \in 1..MaxInflight, body \in ConcBodies : Start(slot, body)

\* lines 96-119: request.json() has settled.  A rejection is caught at line
\* 215 and recorded as a failure, as is a body loginSchema rejects;
\* otherwise bcrypt.hash is called
AfterJson(slot) ==
    /\ inflight[slot].pc = "json"
    /\ LET clientId == inflight[slot].clientId
           body == inflight[slot].body
           fails == ~body.parses \/ ~body.valid
       IN  \E map \in {IF fails THEN recordFailedLogin(loginAttemptMap, clientId, now)
                        ELSE loginAttemptMap} :
           /\ loginAttemptMap' = map
           /\ inflight' = [inflight EXCEPT ![slot] =
                               IF fails THEN Idle ELSE [@ EXCEPT !.pc = "hash"]]
           /\ verifications' = Counted(map, clientId, slot, FALSE)
    /\ UNCHANGED <<now, tableVars, authVars, rateVars, loginResp, fifthFailureAt,
                   tokenVars, clientVars, validationVars,
                   uiVars>>

\* lines 119-140: bcrypt.hash has settled.  An unknown user is recorded as
\* a failure; otherwise bcrypt.compare is called, which is the password
\* verification
AfterHash(slot) ==
    /\ inflight[slot].pc = "hash"
    /\ LET clientId == inflight[slot].clientId
           body == inflight[slot].body
           found == ToLowerCase(MockUser.email) = ToLowerCase(body.email)
       IN  \E map \in {IF found THEN loginAttemptMap
                        ELSE recordFailedLogin(loginAttemptMap, clientId, now)} :
           /\ loginAttemptMap' = map
           /\ inflight' = [inflight EXCEPT ![slot] =
                               IF found THEN [@ EXCEPT !.pc = "compare"] ELSE Idle]
           /\ verifications' = Counted(map, clientId, slot, found)
    /\ UNCHANGED <<now, tableVars, authVars, rateVars, loginResp, fifthFailureAt,
                   tokenVars, clientVars, validationVars,
                   uiVars>>

\* lines 140-213: bcrypt.compare has settled.  A wrong password is recorded
\* as a failure; the right one clears the client's entry
AfterCompare(slot) ==
    /\ inflight[slot].pc = "compare"
    /\ LET clientId == inflight[slot].clientId
           body == inflight[slot].body
           isValidPassword == body.password = MockUser.password
       IN  \E map \in {IF isValidPassword
                        THEN clearFailedLogins(loginAttemptMap, clientId)
                        ELSE recordFailedLogin(loginAttemptMap, clientId, now)} :
           /\ loginAttemptMap' = map
           /\ inflight' = [inflight EXCEPT ![slot] = Idle]
           /\ verifications' = Counted(map, clientId, slot, FALSE)
    /\ UNCHANGED <<now, tableVars, authVars, rateVars, loginResp, fifthFailureAt,
                   tokenVars, clientVars, validationVars,
                   uiVars>>

Resume == \E slot \in 1..MaxInflight :
              AfterJson(slot) \/ AfterHash(slot) \/ AfterCompare(slot)

----------------------------------------------------------------------------
(* Store progress: GET /api/stores/{id}/progress                            *)
(* (src/src/app/api/stores/[id]/progress/route.ts), polled by               *)
(* StoreProgressTracker (src/src/components/ui/DemoDataBadge.tsx:192).      *)
(* A field of a JSON object that may be missing is [defined, value].        *)

\* progress/route.ts:10, RATE_LIMIT_MAX of that route
PROGRESS_RATE_LIMIT_MAX == 20
\* progress/route.ts:11, RATE_LIMIT_WINDOW of that route
PROGRESS_RATE_LIMIT_WINDOW == 15 * 60 * 1000

\* progress/route.ts:22
progressClientIdentifier(request) ==
    LET forwarded == request.forwarded
    IN  IF forwarded # << >>
        THEN FirstPart(forwarded)
        ELSE IF request.realIp # Absent THEN request.realIp ELSE "unknown"

\* progress/route.ts:28
progressCheckRateLimit(map, identifier, t) ==
    LET windowStart == t - PROGRESS_RATE_LIMIT_WINDOW
        \* clean old entries
        cleaned == [key \in {k \in DOMAIN map : ~(map[k].resetTime < windowStart)}
                      |-> map[key]]
    IN  IF ~Has(cleaned, identifier) \/ cleaned[identifier].resetTime < windowStart
        THEN [map    |-> Set(cleaned, identifier,
                             [count |-> 1,
                              resetTime |-> t + PROGRESS_RATE_LIMIT_WINDOW]),
              result |-> [allowed |-> TRUE,
                          remaining |-> PROGRESS_RATE_LIMIT_MAX - 1]]
        ELSE IF cleaned[identifier].count >= PROGRESS_RATE_LIMIT_MAX
        THEN [map    |-> cleaned,
              result |-> [allowed |-> FALSE, remaining |-> 0]]
        ELSE [map    |-> Set(cleaned, identifier,
                             [cleaned[identifier] EXCEPT !.count = @ + 1]),
              result |-> [allowed |-> TRUE,
                          remaining |-> PROGRESS_RATE_LIMIT_MAX
                                            - (cleaned[identifier].count + 1)]]

\* progress/route.ts:54: jwt.verify without issuer or audience
progressVerifyJWT(request, t) ==
    LET authHeader == request.authorization
    IN  IF ~authHeader.present \/ authHeader.scheme # "Bearer"
        THEN [valid |-> FALSE, userId |-> Undefined,
              error |-> "Missing or invalid authorization header"]
        ELSE LET v == JwtVerify(authHeader.token, JWT_SECRET, t)
             IN  IF v.error = ""
                 THEN [valid |-> TRUE, userId |-> v.decoded.userId, error |-> ""]
                 ELSE IF v.error = "TokenExpiredError"
                 THEN [valid |-> FALSE, userId |-> Undefined,
                       error |-> "Token expired"]
                 ELSE [valid |-> FALSE, userId |-> Undefined,
                       error |-> "Invalid token"]

Missing == [defined |-> FALSE, value |-> 0]
Field(value) == [defined |-> TRUE, value |-> value]

\* the store ids of the model; both match /^[a-zA-Z0-9_-]+$/ unless empty
StoreIds == {"store_123", ""}
MatchesStoreIdFormat(storeId) == storeId = "store_123"

\* progress/route.ts:114, the fields of mockProgress the tracker reads: the
\* object has overallProgress and steps, and neither setupComplete nor
\* stepsCompleted
mockProgress(storeId) ==
    [isNull |-> FALSE, storeId |-> storeId, overallProgress |-> Field(65),
     setupComplete |-> Missing, stepsCompleted |-> Missing]

ProgressResponse(status, success, error, progress) ==
    [status |-> status, success |-> success, error |-> error,
     progress |-> progress]

\* the progress state of a tracker before any response, useState(null)
NullProgress ==
    [isNull |-> TRUE, storeId |-> "", overallProgress |-> Missing,
     setupComplete |-> Missing, stepsCompleted |-> Missing]

\* progress/route.ts:74, GET
progressGET(request, params, map, t) ==
    LET clientId == progressClientIdentifier(request)
        c == progressCheckRateLimit(map, clientId, t)
        auth == progressVerifyJWT(request, t)
        storeId == params.id
    IN  IF ~c.result.allowed
        THEN [map |-> c.map,
              response |-> ProgressResponse(429, FALSE,
                               "Too many requests. Please try again later.",
                               NullProgress)]
        ELSE IF ~auth.valid
        THEN [map |-> c.map,
              response |-> ProgressResponse(401, FALSE, auth.error, NullProgress)]
        ELSE IF storeId = "" \/ ~MatchesStoreIdFormat(storeId)
        THEN [map |-> c.map,
              response |-> ProgressResponse(400, FALSE, "Invalid store ID format",
                                            NullProgress)]
        ELSE [map |-> c.map,
              response |-> ProgressResponse(200, TRUE, "", mockProgress(storeId))]

\* DemoDataBadge.tsx:196, the default refreshInterval
refreshInterval == 2000

\* a StoreProgress as the props pass it (DemoDataBadge.tsx:137)
StoreProgress(setupComplete) ==
    [isNull |-> FALSE, storeId |-> "", overallProgress |-> Missing,
     setupComplete |-> Field(setupComplete), stepsCompleted |-> Field(0)]

\* DemoDataBadge.tsx:248, x !== n for a field that may be missing
NotStrictEqual(field, n) == ~(field.defined /\ field.value = n)

\* DemoDataBadge.tsx:206, fetchProgress with the route answering the fetch:
\* the tracker's state once the response has been handled, and the route's
\* table
fetchProgress(tr, map, t) ==
    LET token == tr.access_token
        request == [forwarded |-> << >>, realIp |-> Absent,
                    authorization |-> IF token.wellFormed
                                      THEN Authorization("Bearer", token)
                                      ELSE NoAuthorization]
        r == progressGET(request, [id |-> tr.props.storeId], map, t)
        data == r.response
        ok == data.status >= 200 /\ data.status <= 299
        sent == [tr EXCEPT !.status = data.status, !.requests = @ + 1]
    IN  [map |-> r.map,
         tracker |->
             IF ~ok
             THEN [sent EXCEPT !.error = "Failed to fetch progress"]
             ELSE IF data.success
             THEN [sent EXCEPT !.error = "",
                               !.progress = data.progress,
                               !.completed =
                                   @ \/ (/\ data.progress.setupComplete.defined
                                         /\ data.progress.setupComplete.value >= 100)]
             ELSE [sent EXCEPT !.error = data.error]]

\* DemoDataBadge.tsx:256-392, the render after a state change: with a
\* progress object and no error, showDetailed calls getStepStatus, whose
\* progress.stepsCompleted.includes throws on an object without
\* stepsCompleted; the component is then unmounted and its effect's cleanup
\* (line 253) clears the interval
Rendered(tr) ==
    IF /\ tr.error = ""
       /\ ~tr.progress.isNull
       /\ tr.props.showDetailed
       /\ ~tr.progress.stepsCompleted.defined
    THEN [tr EXCEPT !.mounted = FALSE, !.interval = FALSE, !.effectPending = FALSE]
    ELSE tr

\* the trackers a page can mount: props, the access_token of localStorage
\* (a token issued at 0, or none), and useState(initialProgress || null)
Trackers ==
    {[props |-> [storeId |-> storeId, autoRefresh |-> autoRefresh,
                 showDetailed |-> showDetailed],
      access_token |-> token,
      mounted |-> TRUE, progress |-> progress, error |-> "",
      effectPending |-> TRUE, interval |-> FALSE,
      status |-> 0, requests |-> 0, completed |-> FALSE] :
        storeId \in StoreIds, autoRefresh \in BOOLEAN, showDetailed \in BOOLEAN,
        token \in {generateJWT(UserPayload, "15m", 0), [wellFormed |-> FALSE]},
        progress \in {NullProgress, StoreProgress(45), StoreProgress(100)}}

NoTracker ==
    [props |-> [storeId |-> "", autoRefresh |-> FALSE, showDetailed |-> FALSE],
     access_token |-> [wellFormed |-> FALSE],
     mounted |-> FALSE, progress |-> NullProgress, error |-> "",
     effectPending |-> FALSE, interval |-> FALSE,
     status |-> 0, requests |-> 0, completed |-> FALSE]

PollInit ==
    /\ tracker = NoTracker
    /\ progressRateLimitMap = EmptyMap


\* DemoDataBadge.tsx:242, the effect, run after the first render and after
\* a render in which progress?.setupComplete (or another dependency) has
\* changed; the cleanup of the previous run has cleared its interval
TrackerEffect ==
    /\ tracker.mounted
    /\ tracker.effectPending
    /\ IF ~tracker.props.autoRefresh \/ tracker.props.storeId = ""
       THEN /\ tracker' = [tracker EXCEPT !.effectPending = FALSE,
                                           !.interval = FALSE]
            /\ UNCHANGED progressRateLimitMap
       ELSE \E f \in {fetchProgress(tracker, progressRateLimitMap, now)} :
            /\ tracker' =
                   Rendered([f.tracker EXCEPT
                                !.interval = TRUE,
                                !.effectPending =
                                    f.tracker.progress.setupComplete
                                        # tracker.progress.setupComplete])
            /\ progressRateLimitMap' = f.map
    /\ UNCHANGED <<now, tableVars, authVars, rateVars, loginVars, tokenVars,
                   clientVars, validationVars, concVars, pageVars>>

\* refreshInterval passes and the interval's callback, if one is set, runs
\* (DemoDataBadge.tsx:247); a pending effect has run before
TrackerInterval ==
    /\ ~(tracker.mounted /\ tracker.effectPending)
    /\ now < MaxPolls * refreshInterval
    /\ now' = now + refreshInterval
    /\ IF /\ tracker.mounted
          /\ tracker.interval
          /\ NotStrictEqual(tracker.progress.setupComplete, 100)
       THEN \E f \in {fetchProgress(tracker, progressRateLimitMap, now')} :
            /\ tracker' =
                   Rendered([f.tracker EXCEPT
                                !.effectPending =
                                    f.tracker.progress.setupComplete
                                        # tracker.progress.setupComplete])
            /\ progressRateLimitMap' = f.map
       ELSE UNCHANGED <<tracker, progressRateLimitMap>>
    /\ UNCHANGED <<tableVars, authVars, rateVars, loginVars, tokenVars,
                   clientVars, validationVars, concVars, pageVars>>

----------------------------------------------------------------------------
(* Registration page, src/src/app/store-creation/page.tsx:807               *)
(* (SecureRegisterPage), and its client-side lockout.  A Date is its        *)
(* getTime() in milliseconds; toISOString() keeps the milliseconds and      *)
(* new Date(string) reads them back, so the localStorage item is the same   *)
(* number.                                                                  *)

\* page.tsx:703
MAX_ATTEMPTS == 5
\* page.tsx:704
LOCKOUT_TIME == 5 * 60 * 1000
\* page.tsx:713, FORM_STEPS.length
FormSteps == 3

\* what registering the form's data comes to (page.tsx:910): result.success,
\* a result without success, or an exception
RegisterOutcomes == {"success", "failure", "throws"}

\* the state of a freshly loaded page (page.tsx:808-814) in a browser whose
\* localStorage holds item; its effect has yet to run
LoadedPage(item) ==
    [currentStep |-> 0, attemptCount |-> 0, isLocked |-> FALSE,
     lockoutEnd |-> Missing, register_lockout |-> item,
     effectPending |-> TRUE, navigated |-> FALSE, timeLeft |-> Missing]

\* page.tsx:953-955: the lock screen is what the page renders, with timeLeft
LockScreen(pg) == pg.isLocked /\ pg.lockoutEnd.defined

\* page.tsx:953-977, the render: the timeLeft the lock screen shows, if it is
\* the lock screen that is rendered
Render(pg, t) ==
    [pg EXCEPT !.timeLeft = IF LockScreen(pg)
                            THEN Field(Ceil(pg.lockoutEnd.value - t, 1000))
                            ELSE Missing]

\* page.tsx:857
handleAttemptLockout(pg, t) ==
    LET newCount == pg.attemptCount + 1
        counted == [pg EXCEPT !.attemptCount = newCount]
    IN  IF newCount >= MAX_ATTEMPTS
        THEN LET lockoutTime == t + LOCKOUT_TIME
             IN  [counted EXCEPT !.isLocked = TRUE,
                                 !.lockoutEnd = Field(lockoutTime),
                                 !.register_lockout = Field(lockoutTime)]
        ELSE counted

\* page.tsx:891
handleFinalSubmit(pg, outcome, t) ==
    IF pg.isLocked
    THEN pg
    ELSE IF outcome = "success"
    THEN [pg EXCEPT !.register_lockout = Missing, !.attemptCount = 0,
                    !.navigated = TRUE]
    ELSE handleAttemptLockout(pg, t)

\* page.tsx:870
nextStep(pg, isStepValid, outcome, t) ==
    IF isStepValid
    THEN IF pg.currentStep < FormSteps - 1
         THEN [pg EXCEPT !.currentStep = @ + 1]
         ELSE handleFinalSubmit(pg, outcome, t)
    ELSE handleAttemptLockout(pg, t)

PageInit == page = LoadedPage(Missing)

UiInit == PollInit /\ PageInit

\* page.tsx:820, the effect run once after the page has loaded
PageEffect ==
    /\ page.effectPending
    /\ LET storedLockout == page.register_lockout
           ran == [page EXCEPT !.effectPending = FALSE]
       IN  page' = Render(IF storedLockout.defined
                          THEN IF storedLockout.value > now
                               THEN [ran EXCEPT !.isLocked = TRUE,
                                                !.lockoutEnd = storedLockout]
                               ELSE [ran EXCEPT !.register_lockout = Missing]
                          ELSE ran, now)
    /\ UNCHANGED <<now, tableVars, authVars, rateVars, loginVars, tokenVars,
                   clientVars, validationVars, concVars, pollVars>>

\* the form is on screen: the page has not rendered the lock screen
\* (page.tsx:954) and has not left for the dashboard (page.tsx:929)
FormShown == /\ ~page.effectPending
             /\ ~page.navigated
             /\ ~LockScreen(page)

\* the user presses Continue (page.tsx:870)
NextStep ==
    /\ FormShown
    /\ \E isStepValid \in BOOLEAN, outcome \in RegisterOutcomes :
           page' = Render(nextStep(page, isStepValid, outcome, now), now)
    /\ UNCHANGED <<now, tableVars, authVars, rateVars, loginVars, tokenVars,
                   clientVars, validationVars, concVars, pollVars>>

\* the page renders again without a change of its own state, as when the
\* AuthProvider it reads with useAuth (page.tsx:817) changes
Rerender ==
    /\ ~page.effectPending
    /\ ~page.navigated
    /\ page' = Render(page, now)
    /\ UNCHANGED <<now, tableVars, authVars, rateVars, loginVars, tokenVars,
                   clientVars, validationVars, concVars, pollVars>>

\* the browser loads the page again; localStorage is kept
Reload ==
    /\ page' = LoadedPage(page.register_lockout)
    /\ UNCHANGED <<now, tableVars, authVars, rateVars, loginVars, tokenVars,
                   clientVars, validationVars, concVars, pollVars>>

\* time passes on the loaded page
PageTick ==
    /\ ~page.effectPending
    /\ now < MaxPageTicks * PageTickMs
    /\ now' = now + PageTickMs
    /\ UNCHANGED <<tableVars, authVars, rateVars, loginVars, otherVars>>

NoSanitized == [input |-> << >>, applied |-> FALSE, maxLength |-> 0, output |-> << >>]
NoStrength == [password |-> << >>, applied |-> FALSE, score |-> 0, feedback |-> "",
               color |-> ""]

ValidationInit ==
    /\ sanitized = NoSanitized
    /\ strength = NoStrength

OtherInit == TokenInit /\ ClientInit /\ ValidationInit /\ ConcInit /\ UiInit

\* sanitizeInput(input, maxLength) on the input the state holds
Sanitize(maxLength) ==
    /\ ~sanitized.applied
    /\ sanitized' = [sanitized EXCEPT !.applied = TRUE, !.maxLength = maxLength,
                                      !.output = sanitizeInput(sanitized.input,
                                                               maxLength)]
    /\ UNCHANGED <<now, tableVars, authVars, rateVars, loginVars, tokenVars,
                   clientVars, strength, concVars, uiVars>>

SanitizeInput == \E maxLength \in MaxLengths : Sanitize(maxLength)

\* getPasswordStrength(password) on the password the state holds
RatePassword ==
    /\ ~strength.applied
    /\ \E rated \in {getPasswordStrength(strength.password)} :
           strength' = [strength EXCEPT !.applied = TRUE, !.score = rated.score,
                                       !.feedback = rated.feedback,
                                       !.color = rated.color]
    /\ UNCHANGED <<now, tableVars, authVars, rateVars, loginVars, tokenVars,
                   clientVars, sanitized, concVars, uiVars>>

\* requests to a wrapped handler
AuthSpecInit == /\ now = 0
                /\ TableInit({NoRateLimit} \cup Limits, {Absent, "/api/user/profile"})
                /\ AuthInit /\ RateInit /\ LoginInit /\ OtherInit
AuthNext == AuthRequest \/ AuthTick
AuthSpec == AuthSpecInit /\ [][AuthNext]_vars

\* direct calls of the rate limiter
RateSpecInit == /\ now = 0
                /\ TableInit(Limits, {Absent})
                /\ AuthInit /\ RateInit /\ LoginInit /\ OtherInit
RateNext == RateLimitCalls \/ Tick
RateSpec == RateSpecInit /\ [][RateNext]_vars

\* login requests, one at a time
LoginSpecInit == /\ now = 0
                 /\ TableInit({NoRateLimit}, {Absent})
                 /\ AuthInit /\ RateInit /\ LoginInit /\ OtherInit
LoginNext == LoginRequest \/ Tick
LoginSpec == LoginSpecInit /\ [][LoginNext]_vars

\* tokens issued and verified
TokenSpecInit == /\ now = 0
                 /\ TableInit({NoRateLimit}, {Absent})
                 /\ AuthInit /\ RateInit /\ LoginInit /\ OtherInit
TokenNext == IssueToken \/ VerifyIssued \/ TokenTick
TokenSpec == TokenSpecInit /\ [][TokenNext]_vars

\* the AuthClient of one browser logging in and out, and the tokens the
\* server issued to it
ClientSpecInit == /\ now = 0
                  /\ TableInit({NoRateLimit}, {Absent})
                  /\ AuthInit /\ RateInit /\ LoginInit /\ OtherInit
ClientNext == ClientLogins \/ ClientLogout \/ Replays \/ AuthTick
ClientSpec == ClientSpecInit /\ [][ClientNext]_vars

\* the AuthClient of one browser registering
RegisterSpecInit == /\ now = 0
                    /\ TableInit({NoRateLimit}, {Absent})
                    /\ AuthInit /\ RateInit /\ LoginInit /\ OtherInit
RegisterNext == ClientRegisters \/ ClientLogout \/ Tick
RegisterSpec == RegisterSpecInit /\ [][RegisterNext]_vars

\* sanitizeInput applied to each input string
SanitizeSpecInit == /\ now = 0
                    /\ TableInit({NoRateLimit}, {Absent})
                    /\ AuthInit /\ RateInit /\ LoginInit /\ TokenInit /\ ClientInit
                    /\ ConcInit /\ UiInit
                    /\ sanitized \in {[NoSanitized EXCEPT !.input = input] :
                                         input \in InputStrings}
                    /\ strength = NoStrength
SanitizeNext == SanitizeInput
SanitizeSpec == SanitizeSpecInit /\ [][SanitizeNext]_vars

\* getPasswordStrength applied to each password
StrengthSpecInit == /\ now = 0
                    /\ TableInit({NoRateLimit}, {Absent})
                    /\ AuthInit /\ RateInit /\ LoginInit /\ TokenInit /\ ClientInit
                    /\ ConcInit /\ UiInit
                    /\ sanitized = NoSanitized
                    /\ strength \in {[NoStrength EXCEPT !.password = password] :
                                        password \in Passwords}
StrengthNext == RatePassword
StrengthSpec == StrengthSpecInit /\ [][StrengthNext]_vars

\* login requests of one client, handled concurrently
ConcSpecInit == /\ now = 0
                /\ TableInit({NoRateLimit}, {Absent})
                /\ AuthInit /\ RateInit /\ LoginInit /\ OtherInit
ConcNext == Starts \/ Resume \/ AuthTick
ConcSpec == ConcSpecInit /\ [][ConcNext]_vars

\* a tracker mounted at 0 polling the progress route
PollSpecInit == /\ now = 0
                /\ TableInit({NoRateLimit}, {Absent})
                /\ AuthInit /\ RateInit /\ LoginInit /\ TokenInit /\ ClientInit
                /\ ValidationInit /\ ConcInit /\ PageInit
                /\ tracker \in Trackers
                /\ progressRateLimitMap = EmptyMap
PollNext == TrackerEffect \/ TrackerInterval
PollSpec == PollSpecInit /\ [][PollNext]_vars

\* a user on the registration page
PageSpecInit == /\ now = 0
                /\ TableInit({NoRateLimit}, {Absent})
                /\ AuthInit /\ RateInit /\ LoginInit /\ OtherInit
PageNext == PageEffect \/ NextStep \/ Rerender \/ Reload \/ PageTick
PageSpec == PageSpecInit /\ [][PageNext]_vars

\* calls of the rate limiter by several keys and logins by several clients.
\* rateLimitMaps and loginAttemptMap are separate module-level maps and no
\* function reads both, so a behaviour exercises one of them: the rate
\* limiter when limiter options are installed, the login route otherwise
IsolationSpecInit == /\ now = 0
                     /\ TableInit(Limits \cup {NoRateLimit}, {Absent})
                     /\ AuthInit /\ RateInit /\ LoginInit /\ OtherInit
IsolationLogin == /\ options.rateLimit = NoRateLimit
                  /\ LoginRequest
IsolationNext == RateLimitCalls \/ IsolationLogin \/ Tick
IsolationSpec == IsolationSpecInit /\ [][IsolationNext]_vars

----------------------------------------------------------------------------
(* Claims *)

SecurityHeaderNames == {"X-Frame-Options", "X-Content-Type-Options", "X-XSS-Protection"}

C3_ElapsedWindowResets ==
    result.elapsed =>
        /\ result.allowed
        /\ result.remaining = options.rateLimit.max - 1
        /\ rateLimitMaps[result.endpoint][result.identifier].count = 1

\* C4: a request that passes the rate limit and presents a token whose
\* audience is shopify-automation-refresh is answered 401
C4_RefreshTokenRejected ==
    (resp.audience = "shopify-automation-refresh" /\ resp.status # 429)
        => resp.status = 401

C8_RetryAfterAdmits ==
    /\ resp.status = 429 => resp.retryAfter > 0
    /\ resp.waited => resp.status # 429

\* C10: the response to a request that passed both checks, and whose handler
\* returned, carries the three security headers with their values and the
\* remaining-count header
C10_SuccessCarriesSecurityHeaders ==
    (resp.invoked /\ resp.status # 500) =>
        /\ SecurityHeaderNames \subseteq DOMAIN resp.headers
        /\ resp.headers["X-Frame-Options"] = "DENY"
        /\ resp.headers["X-Content-Type-Options"] = "nosniff"
        /\ resp.headers["X-XSS-Protection"] = "1; mode=block"
        /\ options.rateLimit # NoRateLimit =>
               "X-RateLimit-Remaining" \in DOMAIN resp.headers

\* C2: a login request that arrives less than LOCKOUT_DURATION after the
\* client's failure count reached LOGIN_RATE_LIMIT is answered 429
C2_LockedAfterFifthFailure ==
    loginResp.sinceFifth => loginResp.response.status = 429

\* C6: a login request that arrives while the client's lockedUntil lies in
\* the future is answered 429, with that lockedUntil in the body and the
\* remaining time, rounded up to minutes, in the message and in Retry-After
C6_LockedRejects ==
    loginResp.lockRemaining > 0 =>
        LET r == loginResp.response
        IN  /\ r.status = 429
            /\ Has(loginAttemptMap, loginResp.clientId)
            /\ r.lockedUntil = loginAttemptMap[loginResp.clientId].lockedUntil
            /\ r.lockoutMinutes * 60 * 1000 >= loginResp.lockRemaining
            /\ (r.lockoutMinutes - 1) * 60 * 1000 < loginResp.lockRemaining
            /\ r.headers["Retry-After"] = ToString(r.lockoutMinutes * 60)

\* a request rejected while locked, after the window that counted the
\* failures has expired
C6_Witness ==
    /\ loginResp.lockRemaining > 0
    /\ loginResp.windowExpired
    /\ loginResp.response.status = 429

\* C7: after a successful login the client has no entry, and the next
\* lockout check allows it with remaining = LOGIN_RATE_LIMIT and a failure
\* count of zero
C7_SuccessClears ==
    loginResp.response.status = 200 =>
        LET id == loginResp.clientId
            next == checkLoginRateLimit(loginAttemptMap, id, now)
        IN  /\ ~Has(loginAttemptMap, id)
            /\ next.result.allowed
            /\ next.result.remaining = LOGIN_RATE_LIMIT
            /\ next.map[id].count = 0

\* a successful login of a client that had failures counted
C7_Witness ==
    /\ loginResp.response.status = 200
    /\ loginResp.priorCount > 1

\* C9: every response of the login route carries the three security
\* headers, and every 429 also Retry-After and X-RateLimit-Remaining
C9_LoginResponsesCarryHeaders ==
    loginResp.response.status # 0 =>
        /\ SecurityHeaderNames \subseteq DOMAIN loginResp.response.headers
        /\ loginResp.response.status = 429 =>
               {"Retry-After", "X-RateLimit-Remaining"}
                   \subseteq DOMAIN loginResp.response.headers

\* C11, as amended: verifyJWT on a request bearing generateJWT(claims)
\* returns valid with the claims it was issued for while fewer than 900
\* whole seconds lie between the second of issuance and the second of
\* verification, and 'Token expired' from then on
C11_RoundTripWholeSeconds ==
    verdict.checked =>
        LET seconds == Floor(verdict.at, 1000) - Floor(verdict.issuedAt, 1000)
            auth == verdict.auth
        IN  /\ seconds < 15 * 60 =>
                   /\ auth.valid
                   /\ auth.userId = verdict.payload.userId
                   /\ auth.email = verdict.payload.email
                   /\ auth.role = verdict.payload.role
            /\ seconds >= 15 * 60 => ~auth.valid /\ auth.error = "Token expired"

\* a token accepted in the last second before its expiry
C11_Witness ==
    /\ verdict.checked
    /\ verdict.at - verdict.issuedAt >= 899 * 1000
    /\ verdict.auth.valid
    /\ verdict.auth.userId = "user_2"

\* C11, as stated: the token is valid with its claims while less than 15
\* minutes have passed since issuance, and 'Token expired' once more than 15
\* minutes have passed
C11_RoundTrip ==
    verdict.checked =>
        LET elapsed == verdict.at - verdict.issuedAt
            auth == verdict.auth
        IN  /\ elapsed < 15 * 60 * 1000 =>
                   /\ auth.valid
                   /\ auth.userId = verdict.payload.userId
                   /\ auth.email = verdict.payload.email
                   /\ auth.role = verdict.payload.role
            /\ elapsed > 15 * 60 * 1000 => ~auth.valid /\ auth.error = "Token expired"

\* C12: every access token the login route has issued is accepted by
\* verifyJWT while it has not reached its expiry, whatever logins, failed
\* logins, registrations and logouts have happened since
C12_LogoutDoesNotRevoke ==
    \A tok \in captured :
        Floor(now, 1000) < tok.exp =>
            LET auth == verifyJWT(BearerRequest(tok), now)
            IN  /\ auth.valid
                /\ auth.userId = tok.userId

\* after a logout, a token issued before it has been presented and accepted
C12_Witness ==
    /\ client.accessToken = Null
    /\ clientResult.op = "logout"
    /\ verdict.checked /\ verdict.at = now /\ verdict.issuedAt < now
    /\ verdict.auth.valid

\* C14: a registration answered 201 carries an access token and a refresh
\* token, and leaves the client authenticated
C14_RegistrationMintsTokens ==
    (clientResult.op = "register" /\ clientResult.status = 201) =>
        /\ clientResult.tokens # Null
        /\ clientResult.authenticated

\* C13: a successful login issues an access token that expires 15 minutes
\* after its issuance whatever remember is, and a refresh token that expires
\* 30 days after its issuance when remember is set and 7 days otherwise; the
\* maxAge of the refreshToken cookie is the refresh token's lifetime
C13_TokenLifetimes ==
    loginResp.response.status = 200 =>
        LET r == loginResp.response
            lifetime == IF loginResp.remember THEN 30 * 24 * 60 * 60
                        ELSE 7 * 24 * 60 * 60
        IN  /\ r.accessToken.exp - r.accessToken.iat = 15 * 60
            /\ r.expiresIn = 15 * 60
            /\ r.refreshToken.exp - r.refreshToken.iat = lifetime
            /\ r.cookieMaxAge = r.refreshToken.exp - r.refreshToken.iat

\* a successful login with remember set, after the clock has advanced
C13_Witness ==
    /\ loginResp.response.status = 200
    /\ loginResp.remember
    /\ now > 0

\* C15: a 401 of withAuth carries 'Missing or invalid authorization header'
\* when the request presents no bearer token, 'Token expired' when its token
\* is expired, and 'Invalid token' when the token is malformed or carries
\* another signature
C15_UnauthorizedMessages ==
    resp.status = 401 =>
        /\ resp.tokenState = "missing" =>
               resp.error = "Missing or invalid authorization header"
        /\ resp.tokenState = "expired" => resp.error = "Token expired"
        /\ resp.tokenState = "invalid" => resp.error = "Invalid token"
        /\ resp.error \in {"Missing or invalid authorization header",
                           "Token expired", "Invalid token"}

\* C16: when the downstream handler throws, withAuth answers 500 with the
\* error 'Internal server error', which is not the exception's message, and
\* the table keeps the count the rate limiter took for the request
C16_HandlerThrowIsInternalError ==
    resp.thrown # "" =>
        /\ resp.status = 500
        /\ resp.error = "Internal server error"
        /\ resp.error # resp.thrown
        /\ options.rateLimit # NoRateLimit =>
               /\ Has(rateLimitMaps, resp.endpoint)
               /\ Has(rateLimitMaps[resp.endpoint], resp.clientId)
               /\ rateLimitMaps[resp.endpoint][resp.clientId].count
                      = options.rateLimit.max - resp.rateLimit.remaining

\* a handler that threw on the second request a rate limit counted
C16_Witness ==
    /\ resp.thrown # ""
    /\ resp.status = 500
    /\ options.rateLimit # NoRateLimit
    /\ options.rateLimit.max = 2
    /\ resp.rateLimit.remaining = 0

\* C17: whatever the input and the maxLength, the output of sanitizeInput
\* contains neither '<' nor '>'
C17_NoAngleBrackets ==
    sanitized.applied =>
        \A i \in 1..Len(sanitized.output) : sanitized.output[i] \notin {"<", ">"}

\* an input with two angle brackets around a character that is kept
C17_Witness ==
    /\ sanitized.applied
    /\ sanitized.input = <<"<", "a", ">">>
    /\ sanitized.output = <<"a">>

\* C18: getPasswordStrength rates a score of at most 3 'Very Weak' or 'Weak',
\* a score of 4 or 5 with its middle rating and not 'Very Weak', a score of
\* 6 'Strong', and a score of 7 above that
C18_RatingByScoreBand ==
    strength.applied =>
        /\ strength.score <= 3 => strength.feedback \in {"Very Weak", "Weak"}
        /\ strength.score \in 4..5 => strength.feedback \in {"Good", "Medium"}
        /\ strength.score = 6 => strength.feedback = "Strong"
        /\ strength.score = 7 => strength.feedback = "Very Strong"

\* C19: more than LOGIN_RATE_LIMIT password verifications are begun for one
\* identifier in one window of the attempt table only when a request among
\* them was in flight together with another; with such requests it happens
\* (C19_Witness)
C19_OverLimitOnlyByRace ==
    verifications.n > LOGIN_RATE_LIMIT => verifications.overlapped

\* six password verifications in one window, and the six failures recorded
C19_Witness ==
    /\ verifications.n > LOGIN_RATE_LIMIT
    /\ verifications.overlapped
    /\ Has(loginAttemptMap, "unknown")
    /\ loginAttemptMap["unknown"].count > LOGIN_RATE_LIMIT

\* C20: while a client's lockedUntil lies in the future, no step deletes its
\* entry or sets lockedUntil earlier
C20_LockoutIsKept ==
    [][\A id \in DOMAIN loginAttemptMap :
           loginAttemptMap[id].lockedUntil > now' =>
               /\ Has(loginAttemptMap', id)
               /\ loginAttemptMap'[id].lockedUntil >= loginAttemptMap[id].lockedUntil
      ]_vars


\* C21: for a fixed max >= 1, every entry of every endpoint's rate-limit
\* table has a count between 1 and max in every reachable state, whatever
\* the order in which the callers' checkRateLimit calls run
C21_CountWithinLimit ==
    \A endpoint \in DOMAIN rateLimitMaps :
        \A identifier \in DOMAIN rateLimitMaps[endpoint] :
            /\ rateLimitMaps[endpoint][identifier].count >= 1
            /\ rateLimitMaps[endpoint][identifier].count <= options.rateLimit.max

\* two identifiers of one endpoint both at the limit, the last call rejected
C21_Witness ==
    /\ options.rateLimit.max > 1
    /\ Has(rateLimitMaps, "/login")
    /\ \A identifier \in {"1.2.3.4", "unknown"} :
           /\ Has(rateLimitMaps["/login"], identifier)
           /\ rateLimitMaps["/login"][identifier].count = options.rateLimit.max
    /\ ~result.allowed


\* C22: once a client's failure count has reached LOGIN_RATE_LIMIT, its
\* entry holds lockedUntil = (time of that failure) + LOCKOUT_DURATION, so
\* the lock never lasts beyond LOCKOUT_DURATION after that failure
C22_FifthFailureLocks ==
    LET id == fifthFailureAt.identifier
    IN  (/\ id # ""
         /\ Has(loginAttemptMap, id)
         /\ loginAttemptMap[id].count >= LOGIN_RATE_LIMIT)
            => loginAttemptMap[id].lockedUntil = fifthFailureAt.at + LOCKOUT_DURATION


\* C23: the first login request that arrives at or after a client's
\* lockedUntil is not rejected: the lockout check starts a new window with
\* count 0 (remaining = LOGIN_RATE_LIMIT) and without lockedUntil, so the
\* entry afterwards holds at most the failure of that request itself
C23_LockoutExpires ==
    loginResp.sinceLockEnd >= 0 =>
        LET id == loginResp.clientId
        IN  /\ loginResp.response.status # 429
            /\ loginResp.windowExpired
            /\ Has(loginAttemptMap, id) =>
                   /\ loginAttemptMap[id].count = 1
                   /\ loginAttemptMap[id].lockedUntil = 0
            /\ ~Has(loginAttemptMap, id) => loginResp.response.status = 200

\* a wrong password after the lockout has run out, with no successful login
\* in between: the request is answered 401 and is the one failure counted
C23_Witness ==
    /\ loginResp.sinceLockEnd > 0
    /\ loginResp.response.status = 401
    /\ loginAttemptMap[loginResp.clientId].count = 1

\* C24: a login request that arrives at the instant now = lockedUntil is not
\* rejected, and a request that is rejected found lockedUntil > now or set
\* the lockout itself
C24_StrictLockComparison ==
    /\ loginResp.sinceLockEnd = 0 => loginResp.response.status # 429
    /\ loginResp.response.status = 429 =>
           \/ loginResp.lockRemaining > 0
           \/ loginResp.response.lockoutMinutes * 60 * 1000 = LOCKOUT_DURATION

\* a request at the instant lockedUntil, admitted
C24_Witness ==
    /\ loginResp.sinceLockEnd = 0
    /\ now > 0
    /\ loginResp.response.status \in {200, 401}


\* C25: a login request that the lockout check admits and that is answered
\* with an error (400 for a body that fails validation, 401 for an unknown
\* email or a wrong password, 500 for an exception) leaves the client's
\* failure count one above the count it found; one answered 200 adds no
\* failure and leaves no entry
C25_FailureCountedOnce ==
    LET status == loginResp.response.status
    IN  /\ status \in {400, 401, 500} => loginResp.counted = 1
        /\ status = 200 => /\ loginResp.counted <= 0
                           /\ ~Has(loginAttemptMap, loginResp.clientId)

\* a request whose handling threw, counted on top of earlier failures
C25_Witness ==
    /\ loginResp.response.status = 500
    /\ loginResp.counted = 1
    /\ Has(loginAttemptMap, loginResp.clientId)
    /\ loginAttemptMap[loginResp.clientId].count >= 3

\* C26: a login request made while the client is locked leaves the client's
\* entry as it was: neither lockedUntil nor count nor resetTime changes
C26_LockedEntryUnchanged ==
    [][\A id \in DOMAIN loginAttemptMap :
           (/\ loginAttemptMap[id].lockedUntil > now
            /\ now' = now)
               => /\ Has(loginAttemptMap', id)
                  /\ loginAttemptMap'[id] = loginAttemptMap[id]]_vars

\* a request rejected some time after the lockout was set, by an entry that
\* still holds the count and lockedUntil it had
C26_Witness ==
    /\ loginResp.response.status = 429
    /\ loginResp.lockRemaining > 0
    /\ loginResp.lockRemaining < LOCKOUT_DURATION
    /\ ~loginResp.windowExpired
    /\ Has(loginAttemptMap, loginResp.clientId)
    /\ loginAttemptMap[loginResp.clientId].count = LOGIN_RATE_LIMIT
    /\ loginAttemptMap[loginResp.clientId].lockedUntil =
           loginAttemptMap[loginResp.clientId].resetTime + LOGIN_WINDOW


\* C27: a checkRateLimit call that is rejected leaves the entry of its
\* (identifier, endpoint) as it was: count and resetTime are unchanged
C27_RejectedCallKeepsEntry ==
    [][(~result'.allowed /\ now' = now) =>
           LET endpoint == result'.endpoint
               identifier == result'.identifier
           IN  /\ Has(rateLimitMaps, endpoint)
               /\ Has(rateLimitMaps[endpoint], identifier)
               /\ Has(rateLimitMaps', endpoint)
               /\ Has(rateLimitMaps'[endpoint], identifier)
               /\ rateLimitMaps'[endpoint][identifier] =
                      rateLimitMaps[endpoint][identifier]]_vars

\* a call rejected after its window's first windowMs, while the entry still
\* holds the resetTime the window was opened with
C27_Witness ==
    /\ ~result.allowed
    /\ result.nth = 0
    /\ Has(rateLimitMaps, result.endpoint)
    /\ Has(rateLimitMaps[result.endpoint], result.identifier)
    /\ rateLimitMaps[result.endpoint][result.identifier].count = options.rateLimit.max
    /\ rateLimitMaps[result.endpoint][result.identifier].resetTime = result.resetTime
    /\ result.resetTime < now


\* C28: a checkRateLimit call for one (identifier, endpoint) leaves the
\* result the next call of every other (identifier, endpoint) would get as
\* it was, and a login request of one client leaves every other client's
\* attempt entry (count, resetTime, lockedUntil) as it was
C28_IsolatedPerKey ==
    [][/\ \A caller \in Callers :
              (/\ now' = now
               /\ options.rateLimit # NoRateLimit
               /\ caller # <<result'.identifier, result'.endpoint>>)
                  => checkRateLimit(rateLimitMaps', caller[1], caller[2],
                                    options.rateLimit.max,
                                    options.rateLimit.windowMs, now).result
                     = checkRateLimit(rateLimitMaps, caller[1], caller[2],
                                      options.rateLimit.max,
                                      options.rateLimit.windowMs, now).result
       /\ \A id \in DOMAIN loginAttemptMap \cup DOMAIN loginAttemptMap' :
              (now' = now /\ id # loginResp'.clientId)
                  => /\ Has(loginAttemptMap, id)
                     /\ Has(loginAttemptMap', id)
                     /\ loginAttemptMap'[id] = loginAttemptMap[id]]_vars

\* one client locked out, and a wrong password of the other client answered
\* 401 as its first failure
C28_Witness ==
    /\ Has(loginAttemptMap, "unknown")
    /\ loginAttemptMap["unknown"].lockedUntil > now
    /\ loginResp.clientId = "1.2.3.4"
    /\ loginResp.response.status = 401
    /\ loginAttemptMap["1.2.3.4"].count = 1
    /\ loginAttemptMap["1.2.3.4"].lockedUntil = 0


\* C29: no request of a tracker polling every refreshInterval is answered
\* 429 while the progress the tracker holds is not at 100
C29_PollingWithinLimit ==
    (/\ tracker.props.autoRefresh
     /\ NotStrictEqual(tracker.progress.setupComplete, 100))
        => tracker.status # 429


\* C30: the registration page shows its lock screen only until lockoutEnd,
\* and the remaining time the lock screen displays is never negative
C30_LockoutReleased ==
    /\ (~page.effectPending /\ LockScreen(page)) => now <= page.lockoutEnd.value
    /\ page.timeLeft.defined => page.timeLeft.value >= 0

====
